---- MODULE Spec2Model ----
(***************************************************************************)
(* Event-sourced execution engine of wilhg/orch: the ent-backed event log  *)
(* store (pkg/store/entstore) and the reducer/effect Runner                *)
(* (pkg/runtime/runner.go).                                                *)
(*                                                                         *)
(* Strings are modelled as sequences of tokens joined by "-": the id       *)
(* "intent-claim-r1-add-two" is <<"intent","claim","r1","add","two">> and  *)
(* fmt.Sprintf("intent-%s-%s", run, key) is concatenation.  The empty      *)
(* string is <<>>.                                                         *)
(*                                                                         *)
(* created_at / Timestamp are left out: the store overwrites them with its *)
(* own wall clock and no modelled reducer or handler reads them.           *)
(***************************************************************************)
EXTENDS Integers, Sequences, FiniteSets, TLC

VARIABLES
    events,      \* rows of the events table (committed)
    snapshots,   \* rows of the snapshots table
    pc,          \* per process: position in the call it is executing
    loc,         \* per process: local variables of that call
    ret,         \* what the call that completed last returned
    conf,        \* what the Runners were constructed with (NewRunner arguments)
    calls,       \* EffectHandler.Handle invocations so far, in order
    hist,        \* observations made for the properties (no program reads it)
    pair,        \* the two-store experiment: which store is live, what was fed
    reg          \* the process-wide tool registry and the MCP server built on it

vars == <<events, snapshots, pc, loc, ret, conf, calls, hist, pair, reg>>

----------------------------------------------------------------------------
(* Bounds *)

\* HandleEvent calls begun in one behaviour.
MaxCycles == 2

Procs == {"a", "b"}

----------------------------------------------------------------------------
(* Values *)

EmptyStr == <<>>

R1 == <<"r1">>
R2 == <<"r2">>
Runs == {R1, R2}

NoPayload  == [kind |-> "none", n |-> 0]
NullPayload == [kind |-> "null", n |-> 0]
BadPayload == [kind |-> "bad", n |-> 0]
ObjPayload(k) == [kind |-> "obj", n |-> k]

NoRec == [event_id |-> EmptyStr, run_id |-> EmptyStr, seq |-> 0,
          type |-> "", payload |-> NoPayload]

----------------------------------------------------------------------------
(* Event log store: pkg/store/entstore/store.go *)

RunEvents(evs, run) == {r \in evs : r.run_id = run}

\* LastSeq: largest seq of the run, or 0.
LastSeq(evs, run) ==
    IF RunEvents(evs, run) = {} THEN 0
    ELSE CHOOSE s \in {r.seq : r \in RunEvents(evs, run)} :
            \A r \in RunEvents(evs, run) : r.seq <= s

\* Variant: one counter for the whole table instead of one per run.
NextSeq_Global(evs, run) ==
    IF evs = {} THEN 1
    ELSE 1 + (CHOOSE s \in {r.seq : r \in evs} : \A r \in evs : r.seq <= s)

\* The first statement of the AppendEvent transaction: nextSeq.
NextSeq(evs, run) == LastSeq(evs, run) + 1

\* json.Unmarshal(e.Payload, &payload) into map[string]any, then the
\* re-marshalled form the store hands back.
PayloadAccepted(p) == p.kind \in {"none", "null", "obj"}
StoredPayload(p) == IF p.kind = "obj" THEN p ELSE NoPayload

\* Field validators of the Event schema (NotEmpty).
FieldsValid(e) == e.event_id # EmptyStr /\ e.run_id # EmptyStr /\ e.type # ""

\* Unique indexes of the events table.
\* Variant: event_id carries no unique index.
EventIDTaken_Never(evs, id) == FALSE
EventIDTaken(evs, id) == \E r \in evs : r.event_id = id
RunSeqTaken(evs, run, seq) == \E r \in evs : r.run_id = run /\ r.seq = seq
\* Variant: the (run_id, seq) index is not unique.
ConstraintError_NoRunSeqIndex(evs, e, seq) == EventIDTaken(evs, e.event_id)

ConstraintError(evs, e, seq) ==
    EventIDTaken(evs, e.event_id) \/ RunSeqTaken(evs, e.run_id, seq)

\* GetEventByID: the row, or NoRec with found = FALSE (sql.ErrNoRows).
GetEventByID(evs, id) ==
    IF EventIDTaken(evs, id)
    THEN [found |-> TRUE, rec |-> CHOOSE r \in evs : r.event_id = id]
    ELSE [found |-> FALSE, rec |-> NoRec]

\* ListEvents(run, afterSeq, 0): rows with seq > afterSeq, ascending.
RECURSIVE SortBySeq(_)
SortBySeq(rows) ==
    IF rows = {} THEN <<>>
    ELSE LET m == CHOOSE r \in rows : \A q \in rows : r.seq <= q.seq
         IN <<m>> \o SortBySeq(rows \ {m})

ListEvents(evs, run, afterSeq) ==
    SortBySeq({r \in RunEvents(evs, run) : afterSeq > 0 => r.seq > afterSeq})

\* Variant: a constraint error is returned as it is, without the lookup.
AppendSaveResult_NoDupLookup(evs, e, nextSeq) ==
    IF ~PayloadAccepted(e.payload)
    THEN [events |-> evs, rec |-> NoRec, err |-> "invalid_payload", created |-> FALSE]
    ELSE IF ~FieldsValid(e)
    THEN [events |-> evs, rec |-> NoRec, err |-> "validation", created |-> FALSE]
    ELSE IF ConstraintError(evs, e, nextSeq)
    THEN [events |-> evs, rec |-> NoRec, err |-> "constraint", created |-> FALSE]
    ELSE LET row == [event_id |-> e.event_id, run_id |-> e.run_id, seq |-> nextSeq,
                     type |-> e.type, payload |-> StoredPayload(e.payload)]
         IN [events |-> evs \cup {row}, rec |-> row, err |-> "", created |-> TRUE]

\* The rest of the AppendEvent transaction, after nextSeq was read: decode the
\* payload, build and Save the row, and on a constraint error look the row up
\* by event_id.  Returns the new table, the returned record and the error.
AppendSaveResult(evs, e, nextSeq) ==
    IF ~PayloadAccepted(e.payload)
    THEN [events |-> evs, rec |-> NoRec, err |-> "invalid_payload", created |-> FALSE]
    ELSE IF ~FieldsValid(e)
    THEN [events |-> evs, rec |-> NoRec, err |-> "validation", created |-> FALSE]
    ELSE IF ConstraintError(evs, e, nextSeq)
    THEN IF GetEventByID(evs, e.event_id).found
         THEN [events |-> evs, rec |-> GetEventByID(evs, e.event_id).rec,
               err |-> "", created |-> FALSE]
         ELSE [events |-> evs, rec |-> NoRec, err |-> "constraint", created |-> FALSE]
    ELSE LET row == [event_id |-> e.event_id, run_id |-> e.run_id, seq |-> nextSeq,
                     type |-> e.type, payload |-> StoredPayload(e.payload)]
         IN [events |-> evs \cup {row}, rec |-> row, err |-> "", created |-> TRUE]

\* AppendEvent run without any concurrent transaction.
AppendEvent(evs, e) == AppendSaveResult(evs, e, NextSeq(evs, e.run_id))

----------------------------------------------------------------------------
(* Direct store clients (control plane endpoints calling AppendEvent) *)

ClientIds == {<<"e0">>, <<"e1">>, <<"e2">>}
ClientTypes == {"run_paused"}

\* Records a serialized caller may pass: any id (also the empty one), any
\* payload bytes.
SerialRecords ==
    [event_id : ClientIds \cup {EmptyStr}, run_id : Runs, seq : {0},
     type : ClientTypes,
     payload : {NoPayload, NullPayload, ObjPayload(1), BadPayload}]

\* Records the concurrent callers pass.
ConcurrentRecords ==
    [event_id : ClientIds, run_id : Runs, seq : {0},
     type : ClientTypes, payload : {NoPayload}]

NoLoc == [op |-> "none"]
NoState == [run |-> EmptyStr, n |-> 0]
NoLast == [run |-> EmptyStr, given |-> EmptyStr, state |-> NoState, err |-> "none",
           dupPath |-> FALSE]
NoHist == [lastRet |-> [r \in Runs |-> 0], last |-> NoLast, cycles |-> 0,
           orphans |-> {}]
NoPair == [store |-> 1, proc |-> "", fed |-> <<>>, first |-> <<>>, firstFinal |-> NoState]
NoConf == [app |-> "counter",
           runner |-> [p \in Procs |-> [codec |-> "none", interval |-> 0]]]
NoRet == [op |-> "none"]
\* The registry before any RegisterTool: tools is the name -> Tool map (as the
\* set of its values), first remembers per registered name the tool of the
\* first successful registration, log the RegisterTool calls that returned
\* with their errors, server is what RegisterFromRegistry installed.
NoServer == [up |-> FALSE, handlers |-> {}, allowed |-> <<>>]
NoReg == [tools |-> {}, first |-> {}, log |-> <<>>, server |-> NoServer]
\* A snapshot row saved without state: LoadLatestSnapshot returns it with
\* len(State) = 0.
EmptyBody == [run |-> EmptyStr, n |-> -1]
NoSnap == [snapshot_id |-> EmptyStr, run_id |-> EmptyStr, upto_seq |-> 0,
           state |-> EmptyBody]
\* What a cycle of HandleEvent did so far: whether Reduce rejected the incoming
\* event, the intent whose handler returned an error, whether an AppendEvent
\* returned an error, the AppendEvent calls that returned a record (what was
\* appended and the seq returned), the indices of the intents handed to a
\* handler, the keys whose marker append was issued, and whether a snapshot
\* was saved, the LastSeq the snapshot policy read (0: not read), the snapshot
\* replayState loaded (NoSnap: none), the state replay started from and the
\* seqs of the events it folded.
NoObs == [rerr |-> FALSE, herr |-> "", herrIdx |-> 0, ctx |-> "",
          appendFailed |-> FALSE, seqs |-> <<>>, handled |-> <<>>,
          markers |-> {}, snapped |-> FALSE, total |-> 0, polled |-> 0,
          snap |-> NoSnap, base |-> NoState, folded |-> <<>>,
          faulted |-> FALSE, replayFailed |-> FALSE, conflict |-> FALSE]

InitStore ==
    /\ events = {}
    /\ snapshots = {}
    /\ pc = [p \in Procs |-> "idle"]
    /\ loc = [p \in Procs |-> NoLoc]
    /\ ret = NoRet
    /\ conf = NoConf
    /\ calls = <<>>
    /\ hist = NoHist
    /\ pair = NoPair
    /\ reg = NoReg

AllIdle == \A p \in Procs : pc[p] = "idle"

\* AppendEvent, first half: open the transaction and read the run's max seq.
AppendBegin(p, e) ==
    /\ pc[p] = "idle"
    /\ pc' = [pc EXCEPT ![p] = "append_save"]
    /\ loc' = [loc EXCEPT ![p] = [op |-> "append", e |-> e,
                                  nextSeq |-> NextSeq(events, e.run_id),
                                  dup |-> EventIDTaken(events, e.event_id)]]
    /\ UNCHANGED <<events, snapshots, ret, conf, reg, calls, hist, pair>>

\* AppendEvent, second half: Save, Commit (or the duplicate lookup), return.
\* ret also notes what the caller could observe around the call: whether the
\* id was in the store when the call began, the run's LastSeq just before the
\* Save and whether the table changed.
AppendSave(p) ==
    /\ pc[p] = "append_save"
    /\ LET res == AppendSaveResult(events, loc[p].e, loc[p].nextSeq)
       IN /\ events' = res.events
          /\ ret' = [op |-> "append", run |-> loc[p].e.run_id,
                     id |-> loc[p].e.event_id, okPayload |-> PayloadAccepted(loc[p].e.payload),
                     rec |-> res.rec, err |-> res.err, created |-> res.created,
                     dup |-> loc[p].dup,
                     prevRet |-> hist.lastRet[loc[p].e.run_id],
                     changed |-> res.events # events]
          /\ hist' = IF res.created
                     THEN [hist EXCEPT !.lastRet[loc[p].e.run_id] = res.rec.seq]
                     ELSE hist
    /\ pc' = [pc EXCEPT ![p] = "idle"]
    /\ loc' = [loc EXCEPT ![p] = NoLoc]
    /\ UNCHANGED <<snapshots, conf, reg, calls, pair>>

\* Callers that serialize their AppendEvent calls.
NextSerial ==
    \/ \E p \in Procs, e \in SerialRecords : AllIdle /\ AppendBegin(p, e)
    \/ \E p \in Procs : AppendSave(p)

SpecSerial == InitStore /\ [][NextSerial]_vars

\* Callers that do not.
NextStore ==
    \/ \E p \in Procs, e \in ConcurrentRecords : AppendBegin(p, e)
    \/ \E p \in Procs : AppendSave(p)

SpecStore == InitStore /\ [][NextStore]_vars

----------------------------------------------------------------------------
(* Reducers, handlers and codecs the Runner is built with *)

\* Which reducer/handler pair the Runners over this store were built with:
\*   "counter": testReducer + testHandler
\*   "idem":    reducerWithIdem + testHandler
\*   "todo":    todo.Reducer + todo.LoggerEffect
\*   "plan":    a Reducer that rejects events of type "fail" and emits three
\*              intents for "batch", + testHandler and agent.ToolEffectHandler
Apps == {"counter", "idem", "todo"}
PlanApps == {"plan"}

\* Low digits of the wall clock as handlers and HandleEvent format them into
\* ids ("150405.000000" keeps the time of day only, so a value can recur).
TimeTokens == {"t1", "t2"}

StateFactory(run) == [run |-> run, n |-> 0]

\* decode(event.Payload, &p); p.N
DecodeN(payload) == IF payload.kind = "obj" THEN payload.n ELSE 0

AddTwoKey == <<"add", "two">>

ToolKey == <<"tool", "one">>
NotifyKey == <<"notify", "one">>
\* The n of an added event the "plan" reducer refuses to fold.
PoisonN == 13

\* The Reducer of "plan": "fail" is rejected; "batch" emits a keyed emit_added
\* intent, a keyed tool intent whose Args lack "name", and an emit_added
\* intent without key; "inc" and "added" are as in reducerWithIdem.
PlanReduce(st, ev) ==
    IF ev.type = "fail"
    THEN [state |-> NoState, intents |-> <<>>, err |-> "reducer_failed"]
    ELSE IF ev.type = "batch"
    THEN [state |-> [st EXCEPT !.n = st.n + 1],
          intents |-> <<[name |-> "emit_added", n |-> 2, key |-> AddTwoKey],
                        [name |-> "tool", n |-> 0, key |-> ToolKey],
                        [name |-> "emit_added", n |-> 2, key |-> EmptyStr]>>,
          err |-> ""]
    ELSE IF ev.type = "mixed"
    THEN [state |-> [st EXCEPT !.n = st.n + 1],
          intents |-> <<[name |-> "notify", n |-> 0, key |-> NotifyKey],
                        [name |-> "emit_added", n |-> 2, key |-> EmptyStr],
                        [name |-> "emit_added", n |-> 2, key |-> AddTwoKey]>>,
          err |-> ""]
    ELSE IF ev.type = "tooled"
    THEN [state |-> [st EXCEPT !.n = st.n + 1],
          intents |-> <<[name |-> "tool", n |-> 1, key |-> EmptyStr]>>,
          err |-> ""]
    ELSE IF ev.type = "poison"
    THEN [state |-> [st EXCEPT !.n = st.n + 1],
          intents |-> <<[name |-> "emit_added", n |-> PoisonN, key |-> EmptyStr]>>,
          err |-> ""]
    ELSE IF ev.type = "inc"
    THEN [state |-> [st EXCEPT !.n = st.n + DecodeN(ev.payload)],
          intents |-> <<[name |-> "emit_added", n |-> 2, key |-> AddTwoKey]>>,
          err |-> ""]
    ELSE IF ev.type = "added"
    THEN IF DecodeN(ev.payload) = PoisonN
         THEN [state |-> NoState, intents |-> <<>>, err |-> "reducer_failed"]
         ELSE [state |-> [st EXCEPT !.n = st.n + DecodeN(ev.payload)],
               intents |-> <<[name |-> "emit_added", n |-> 2, key |-> EmptyStr]>>,
               err |-> ""]
    ELSE [state |-> st, intents |-> <<>>, err |-> ""]

\* Reducer.Reduce(ctx, current, event) -> (next, intents, err)
Reduce(a, st, ev) ==
    IF a = "plan" THEN PlanReduce(st, ev)
    ELSE IF a \in {"counter", "idem"}
    THEN IF ev.type = "inc"
         THEN [state |-> [st EXCEPT !.n = st.n + DecodeN(ev.payload)],
               intents |-> <<[name |-> "emit_added", n |-> 2,
                              key |-> IF a = "idem" THEN AddTwoKey ELSE EmptyStr]>>,
               err |-> ""]
         ELSE IF ev.type = "added"
         THEN [state |-> [st EXCEPT !.n = st.n + DecodeN(ev.payload)],
               intents |-> <<>>, err |-> ""]
         ELSE [state |-> st, intents |-> <<>>, err |-> ""]
    ELSE IF ev.type = "complete_task"
         THEN [state |-> [st EXCEPT !.n = st.n + 1],
               intents |-> <<[name |-> "log", n |-> 0, key |-> ev.id \o <<"log">>]>>,
               err |-> ""]
         ELSE [state |-> st, intents |-> <<>>, err |-> ""]

\* The handlers list of the Runner, by name.
Handlers(a) ==
    IF a = "todo" THEN <<"LoggerEffect">>
    ELSE IF a = "plan" THEN <<"testHandler", "ToolEffectHandler", "auditHandler">>
    ELSE <<"testHandler">>

CanHandle(h, it) ==
    IF h = "testHandler" THEN it.name = "emit_added"
    ELSE IF h = "ToolEffectHandler" THEN it.name = "tool"
    ELSE IF h = "auditHandler" THEN it.name # "notify"
    ELSE it.name = "log"

\* The error handler.Handle returns, "" for none.  ToolEffectHandler.Handle
\* returns errMissing("name") for an intent whose Args hold no "name".
HandleError(h, it) ==
    IF h = "ToolEffectHandler" /\ it.n = 0 THEN "validation/missing_fields" ELSE ""

\* Variant: the last handler of the list that can handle the intent.
FindHandler_Last(a, it) ==
    IF \E i \in 1..Len(Handlers(a)) : CanHandle(Handlers(a)[i], it)
    THEN Handlers(a)[CHOOSE i \in 1..Len(Handlers(a)) :
                        /\ CanHandle(Handlers(a)[i], it)
                        /\ \A j \in (i+1)..Len(Handlers(a)) : ~CanHandle(Handlers(a)[j], it)]
    ELSE ""

\* Runner.findHandler: the first handler that can handle the intent, or "".
FindHandler(a, it) ==
    IF \E i \in 1..Len(Handlers(a)) : CanHandle(Handlers(a)[i], it)
    THEN Handlers(a)[CHOOSE i \in 1..Len(Handlers(a)) :
                        /\ CanHandle(Handlers(a)[i], it)
                        /\ \A j \in 1..(i-1) : ~CanHandle(Handlers(a)[j], it)]
    ELSE ""

\* handler.Handle(ctx, current, it) at wall-clock token t: the events returned.
Handle(h, st, it, t) ==
    IF h = "testHandler"
    THEN <<[id |-> <<"e", "added">> \o st.run \o <<t>>, type |-> "added",
            payload |-> ObjPayload(it.n)]>>
    ELSE IF h = "ToolEffectHandler"
    THEN <<[id |-> EmptyStr, type |-> "tool_result", payload |-> ObjPayload(0)]>>
    ELSE <<[id |-> <<"ack", t>>, type |-> "logged", payload |-> ObjPayload(0)]>>

\* agentEventToRecord / recordToAgentEvent
agentEventToRecord(run, e) ==
    [event_id |-> e.id, run_id |-> run, seq |-> 0, type |-> e.type,
     payload |-> e.payload]
recordToAgentEvent(er) ==
    [id |-> er.event_id, type |-> er.type, payload |-> er.payload]

intentMarkerEventID(run, key) == <<"intent">> \o run \o key
intentClaimEventID(run, key) == <<"intent", "claim">> \o run \o key

\* Runner.applySingle over a list of records, as replayState folds them.
RECURSIVE FoldRecords(_, _, _)
FoldRecords(a, st, recs) ==
    IF recs = <<>> THEN st
    ELSE FoldRecords(a, Reduce(a, st, recordToAgentEvent(Head(recs))).state, Tail(recs))

\* The fold stops at a record for which applySingle returns an error
\* (runner.go 214-217).
RECURSIVE FoldFails(_, _, _)
FoldFails(a, st, recs) ==
    IF recs = <<>> THEN FALSE
    ELSE IF Reduce(a, st, recordToAgentEvent(Head(recs))).err # "" THEN TRUE
    ELSE FoldFails(a, Reduce(a, st, recordToAgentEvent(Head(recs))).state, Tail(recs))

\* The intents applySingle returns along that fold.
RECURSIVE ReplayIntents(_, _, _)
ReplayIntents(a, st, recs) ==
    IF recs = <<>> THEN <<>>
    ELSE Reduce(a, st, recordToAgentEvent(Head(recs))).intents
            \o ReplayIntents(a, Reduce(a, st, recordToAgentEvent(Head(recs))).state,
                             Tail(recs))

\* current, _, err = r.applySingle(ctx, current, ev): what is left to
\* dispatch of the intents returned by a fold (runner.go 138, 214).
DiscardedIntents_Dispatched(its) == its
DiscardedIntents(its) == <<>>

\* Replay from empty: StateFactory(run) folded over all events of the run.
FullFold(a, evs, run) == FoldRecords(a, StateFactory(run), ListEvents(evs, run, 0))

\* Runner configurations: WithSnapshot(codec, interval).
\*   codec "none": no SnapshotCodec; "json": jsonCodec; "nodecode": a codec
\*   whose Decode returns an error.
SnapshotInterval == 2
NoSnapshotting == [codec |-> "none", interval |-> 0]
WithSnapshot(codec) ==
    IF codec # "none" /\ SnapshotInterval > 0
    THEN [codec |-> codec, interval |-> SnapshotInterval]
    ELSE NoSnapshotting

Encode(st) == [run |-> st.run, n |-> st.n]
Decode(codec, run, body) ==
    IF codec = "json"
    THEN [ok |-> TRUE,
          state |-> [run |-> IF body.run = EmptyStr THEN run ELSE body.run,
                     n |-> body.n]]
    ELSE [ok |-> FALSE, state |-> StateFactory(run)]

\* Store.LoadLatestSnapshot: the run's snapshot with the largest upto_seq.
HasSnapshot(sns, run) == \E sn \in sns : sn.run_id = run
LoadLatestSnapshot(sns, run) ==
    CHOOSE sn \in sns :
        /\ sn.run_id = run
        /\ \A o \in sns : o.run_id = run => o.upto_seq <= sn.upto_seq

\* Store.SaveSnapshot: unique snapshot_id and unique (run_id, upto_seq).
SnapshotConflict(sns, sn) ==
    \E o \in sns : \/ o.snapshot_id = sn.snapshot_id
                   \/ (o.run_id = sn.run_id /\ o.upto_seq = sn.upto_seq)

\* if err == nil && len(sn.State) > 0 (196)
SnapshotUsable(sns, run) ==
    HasSnapshot(sns, run) /\ LoadLatestSnapshot(sns, run).state # EmptyBody

\* The first half of Runner.replayState: base state and upto.
ReplayBase(cfg, sns, run) ==
    IF SnapshotUsable(sns, run)
    THEN LET sn == LoadLatestSnapshot(sns, run)
         IN [base |-> IF cfg.codec # "none" /\ Decode(cfg.codec, run, sn.state).ok
                      THEN Decode(cfg.codec, run, sn.state).state
                      ELSE StateFactory(run),
             upto |-> sn.upto_seq]
    ELSE [base |-> StateFactory(run), upto |-> 0]

----------------------------------------------------------------------------
(* Runner.HandleEvent, one action per store call or handler call.  Each      *)
(* action also runs the in-memory code that follows the call up to the next  *)
(* store or handler call.                                                    *)

Cfg(p) == conf.runner[p]

\* The loop head of step 4: drop the intents no handler accepts and say where
\* the cycle goes next.  The head of l.intents is the intent being dispatched.
RECURSIVE Dispatch(_, _)
Dispatch(cfg, l) ==
    IF l.intents = <<>>
    THEN [pc |-> IF cfg.codec # "none" /\ cfg.interval > 0 THEN "he_lastseq" ELSE "return",
          l |-> l]
    ELSE IF FindHandler(conf.app, Head(l.intents)) = ""
    THEN Dispatch(cfg, [l EXCEPT !.intents = Tail(l.intents)])
    ELSE IF Head(l.intents).key # EmptyStr
    THEN [pc |-> "he_claim_begin", l |-> l]
    ELSE [pc |-> "he_handle", l |-> l]

\* Where the cycle goes once the handler's events are all appended and folded.
AfterEffects(cfg, l) ==
    IF l.evs # <<>> THEN [pc |-> "he_ev_begin", l |-> l]
    ELSE IF Head(l.intents).key # EmptyStr THEN [pc |-> "he_mark_begin", l |-> l]
    ELSE Dispatch(cfg, [l EXCEPT !.intents = Tail(l.intents)])

\* HandleEvent returns (state, err) to its caller.
Return(p, l, st, err, evs2) ==
    /\ pc' = [pc EXCEPT ![p] = "idle"]
    /\ loc' = [loc EXCEPT ![p] = NoLoc]
    /\ ret' = [op |-> "handle", proc |-> p, run |-> l.run, id |-> l.inc.id,
               given |-> l.given,
               state |-> st, err |-> err, dupPath |-> l.dupPath,
               ncalls |-> l.ncalls, changed |-> l.changed,
               replay |-> FullFold(conf.app, evs2, l.run),
               hadSnapshot |-> HasSnapshot(snapshots, l.run),
               prev |-> hist.last, obs |-> l.obs]
    /\ hist' = [hist EXCEPT !.last = [run |-> l.run, given |-> l.given, state |-> st,
                                      err |-> err, dupPath |-> l.dupPath]]

Goto(p, nxt, evs2) ==
    IF nxt.pc = "return"
    THEN Return(p, nxt.l, nxt.l.cur, "", evs2)
    ELSE /\ pc' = [pc EXCEPT ![p] = nxt.pc]
         /\ loc' = [loc EXCEPT ![p] = nxt.l]
         /\ UNCHANGED <<ret, hist>>

\* time.Now().UnixNano() as HandleEvent prints it into a synthesized id: the
\* k-th call of a behaviour reads a later clock than the calls before it.
UnixNano(k) == "n" \o ToString(k)

\* Entry, input validation and LoadLatestSnapshot (runner.go 73-78, 194-203).
HandleBegin(p, run, incoming) ==
    /\ pc[p] = "idle"
    /\ LET inc == IF incoming.id = EmptyStr
                  THEN [incoming EXCEPT !.id = <<"e">> \o run \o <<UnixNano(hist.cycles)>>]
                  ELSE incoming
           rb == ReplayBase(Cfg(p), snapshots, run)
           l == [op |-> "handle", run |-> run, inc |-> inc, upto |-> rb.upto,
                 cur |-> rb.base, lastSeq |-> rb.upto, intents |-> <<>>, evs |-> <<>>,
                 nextSeq |-> 0, ncalls |-> 0, changed |-> FALSE, dupPath |-> FALSE,
                 given |-> incoming.id, claimed |-> FALSE,
                 obs |-> [NoObs EXCEPT !.base = rb.base,
                                       !.snap = IF HasSnapshot(snapshots, run)
                                                THEN LoadLatestSnapshot(snapshots, run)
                                                ELSE NoSnap]]
       IN IF run = EmptyStr
          THEN /\ pc' = pc
               /\ loc' = loc
               /\ ret' = [op |-> "handle", proc |-> p, run |-> run, id |-> incoming.id,
                          given |-> incoming.id,
                          state |-> NoState, err |-> "validation/missing_run",
                          dupPath |-> FALSE, ncalls |-> 0, changed |-> FALSE,
                          replay |-> NoState, hadSnapshot |-> FALSE, prev |-> hist.last,
                          obs |-> NoObs]
               /\ hist' = [hist EXCEPT !.cycles = @ + 1,
                                       !.last = [run |-> run, given |-> incoming.id,
                                                 state |-> NoState,
                                                 err |-> "validation/missing_run",
                                                 dupPath |-> FALSE]]
          ELSE /\ pc' = [pc EXCEPT ![p] = "he_list"]
               /\ loc' = [loc EXCEPT ![p] = l]
               /\ ret' = ret
               /\ hist' = [hist EXCEPT !.cycles = @ + 1]
    /\ UNCHANGED <<events, snapshots, conf, reg, calls>>

\* ListEvents(run, upto, 0) and the fold of replayState (runner.go 205-222).
HandleList(p) ==
    /\ pc[p] = "he_list"
    /\ LET l == loc[p]
           recs == ListEvents(events, l.run, l.upto)
       IN IF FoldFails(conf.app, l.cur, recs)
          THEN Return(p, [l EXCEPT !.obs.replayFailed = TRUE], NoState,
                      "system/store_error", events)
          ELSE /\ pc' = [pc EXCEPT ![p] = "he_dup"]
               /\ loc' = [loc EXCEPT ![p] =
                     [l EXCEPT !.cur = FoldRecords(conf.app, l.cur, recs),
                               !.intents = DiscardedIntents(ReplayIntents(conf.app, l.cur, recs)),
                               !.lastSeq = IF recs = <<>> THEN l.upto
                                           ELSE recs[Len(recs)].seq,
                               !.obs.folded = [i \in DOMAIN recs |-> recs[i].seq]]]
               /\ UNCHANGED <<ret, hist>>
    /\ UNCHANGED <<events, snapshots, conf, reg, calls, pair>>

\* if err != nil { return nil, err }; current = next (96-100)
AfterReduce_AppendAnyway(p, l, red) ==
    /\ pc' = [pc EXCEPT ![p] = "he_in_begin"]
    /\ loc' = [loc EXCEPT ![p] = [l EXCEPT !.cur = red.state, !.intents = red.intents]]
    /\ UNCHANGED <<ret, hist>>
AfterReduce(p, l, red) ==
    IF red.err # ""
    THEN Return(p, l, NoState, red.err, events)
    ELSE /\ pc' = [pc EXCEPT ![p] = "he_in_begin"]
         /\ loc' = [loc EXCEPT ![p] = [l EXCEPT !.cur = red.state, !.intents = red.intents]]
         /\ UNCHANGED <<ret, hist>>

\* Where a duplicate delivery goes: return current, nil (90).
\* Variant: the duplicate path runs the snapshot policy before it returns.
AfterDuplicate_Policy(cfg) ==
    IF cfg.codec # "none" /\ cfg.interval > 0 THEN "he_lastseq" ELSE "return"
AfterDuplicate(cfg) == "return"

\* GetEventByID(incoming.ID), then Reduce on the incoming event (88-100).
HandleDupCheck(p) ==
    /\ pc[p] = "he_dup"
    /\ LET l == loc[p]
           red == [Reduce(conf.app, l.cur, l.inc) EXCEPT !.intents = l.intents \o @]
       IN IF GetEventByID(events, l.inc.id).found
          THEN Goto(p, [pc |-> AfterDuplicate(Cfg(p)),
                        l |-> [l EXCEPT !.dupPath = TRUE, !.intents = <<>>]], events)
          ELSE IF red.err # ""
          THEN AfterReduce(p, [l EXCEPT !.obs.rerr = TRUE], red)
          ELSE AfterReduce(p, [l EXCEPT !.obs.total =
                                    Len(Reduce(conf.app, l.cur, l.inc).intents)], red)
    /\ UNCHANGED <<events, snapshots, conf, reg, calls, pair>>

\* The position in the reducer's batch of the intent being dispatched.
IntentIndex(l) == l.obs.total - Len(l.intents) + 1

\* The observation after an AppendEvent call returned res.
Appended(obs, what, idx, res) ==
    IF res.err # ""
    THEN [obs EXCEPT !.appendFailed = TRUE]
    ELSE [obs EXCEPT !.seqs = Append(@, [what |-> what, idx |-> idx, seq |-> res.rec.seq,
                                       created |-> res.created])]

\* The record the AppendEvent call at this position is given.
PendingRecord(p) ==
    LET l == loc[p]
    IN IF pc[p] \in {"he_in_begin", "he_in_save"}
       THEN agentEventToRecord(l.run, l.inc)
       ELSE IF pc[p] \in {"he_claim_begin", "he_claim_save"}
       THEN [event_id |-> intentClaimEventID(l.run, Head(l.intents).key),
             run_id |-> l.run, seq |-> 0, type |-> "intent_claimed",
             payload |-> NoPayload]
       ELSE IF pc[p] \in {"he_ev_begin", "he_ev_save"}
       THEN agentEventToRecord(l.run, Head(l.evs))
       ELSE agentEventToRecord(l.run,
                [id |-> intentMarkerEventID(l.run, Head(l.intents).key),
                 type |-> "intent_processed", payload |-> ObjPayload(0)])

SaveOf(b) ==
    IF b = "he_in_begin" THEN "he_in_save"
    ELSE IF b = "he_claim_begin" THEN "he_claim_save"
    ELSE IF b = "he_ev_begin" THEN "he_ev_save"
    ELSE "he_mark_save"

\* Any AppendEvent of the cycle, first half: the transaction reads max seq.
HandleAppendBegin(p) ==
    /\ pc[p] \in {"he_in_begin", "he_claim_begin", "he_ev_begin", "he_mark_begin"}
    /\ pc' = [pc EXCEPT ![p] = SaveOf(pc[p])]
    /\ loc' = [loc EXCEPT ![p].nextSeq = NextSeq(events, loc[p].run)]
    /\ UNCHANGED <<events, snapshots, ret, conf, reg, calls, hist, pair>>

\* Step 3, second half of AppendEvent(incoming) (103-105).
HandleIncomingSave(p) ==
    /\ pc[p] = "he_in_save"
    /\ LET l == loc[p]
           res == AppendSaveResult(events, PendingRecord(p), l.nextSeq)
           l2 == [l EXCEPT !.changed = l.changed \/ res.created,
                           !.obs = Appended(l.obs, "incoming", 0, res)]
       IN /\ events' = res.events
          /\ IF res.err # ""
             THEN Return(p, l2, NoState, "system/store_error", res.events)
             ELSE Goto(p, Dispatch(Cfg(p), l2), res.events)
    /\ UNCHANGED <<snapshots, conf, reg, calls, pair>>

\* Second half of the claim AppendEvent (117-119).
HandleClaimSave(p) ==
    /\ pc[p] = "he_claim_save"
    /\ LET l == loc[p]
           res == AppendSaveResult(events, PendingRecord(p), l.nextSeq)
           l2 == [l EXCEPT !.changed = l.changed \/ res.created,
                           !.claimed = res.created,
                           !.obs = Appended(l.obs, "claim", IntentIndex(l), res)]
       IN /\ events' = res.events
          /\ pc' = [pc EXCEPT ![p] = IF res.err # "" THEN "he_claim_get" ELSE "he_handle"]
          /\ loc' = [loc EXCEPT ![p] = l2]
    /\ UNCHANGED <<snapshots, ret, conf, reg, calls, hist, pair>>

\* The claim append failed: GetEventByID(claimID) decides between skipping the
\* intent and returning the error (120-125).
HandleClaimGet(p) ==
    /\ pc[p] = "he_claim_get"
    /\ LET l == loc[p]
       IN IF GetEventByID(events, intentClaimEventID(l.run, Head(l.intents).key)).found
          THEN Goto(p, Dispatch(Cfg(p), [l EXCEPT !.intents = Tail(l.intents)]), events)
          ELSE Return(p, l, NoState, "store", events)
    /\ UNCHANGED <<events, snapshots, conf, reg, calls, pair>>

\* errmodel.System("effect_error", ..., {"intent": it.Name}, err) returned (128-131)
AfterHandleError_NextIntent(p, l, it) ==
    Goto(p, Dispatch(Cfg(p), [l EXCEPT !.intents = Tail(l.intents)]), events)
AfterHandleError(p, l, it) ==
    Return(p, [l EXCEPT !.obs.ctx = it.name], NoState, "system/effect_error", events)

\* handler.Handle(ctx, current, it) (127-131); t is the handler's wall clock.
HandleInvoke(p, t) ==
    /\ pc[p] = "he_handle"
    /\ LET l == loc[p]
           it == Head(l.intents)
           h == FindHandler(conf.app, it)
           herr == HandleError(h, it)
           lh == [l EXCEPT !.ncalls = @ + 1,
                           !.obs.handled = Append(@, IntentIndex(l))]
       IN /\ calls' = Append(calls, [run |-> l.run, name |-> it.name, key |-> it.key,
                                     event |-> l.inc.id, err |-> herr, handler |-> h,
                                     gate |-> l.claimed,
                                     orphaned |-> <<l.run, it.key>> \in hist.orphans])
          /\ IF herr # ""
             THEN AfterHandleError(p, [lh EXCEPT !.obs.herr = it.name,
                                                 !.obs.herrIdx = IntentIndex(l)], it)
             ELSE Goto(p, AfterEffects(Cfg(p), [lh EXCEPT !.evs = Handle(h, l.cur, it, t)]),
                       events)
    /\ UNCHANGED <<events, snapshots, conf, reg, pair>>

\* AppendEvent of one handler event, second half, and its fold (132-145).
HandleEffectSave(p) ==
    /\ pc[p] = "he_ev_save"
    /\ LET l == loc[p]
           ev == Head(l.evs)
           res == AppendSaveResult(events, PendingRecord(p), l.nextSeq)
           red == Reduce(conf.app, l.cur, ev)
           l2 == [l EXCEPT !.changed = l.changed \/ res.created,
                           !.obs = Appended(l.obs, "effect", IntentIndex(l), res)]
       IN /\ events' = res.events
          /\ IF res.err # ""
             THEN Return(p, l2, NoState, "system/store_error", res.events)
             ELSE IF red.err # ""
             THEN Return(p, l2, NoState, "system/reducer_error", res.events)
             ELSE Goto(p, AfterEffects(Cfg(p),
                            [l2 EXCEPT !.cur = red.state, !.lastSeq = @ + 1,
                                       !.evs = Tail(l.evs),
                                       !.intents = @ \o DiscardedIntents(red.intents)]),
                       res.events)
    /\ UNCHANGED <<snapshots, conf, reg, calls, pair>>

\* AppendEvent of the completion marker, second half (147-160).
HandleMarkerSave(p) ==
    /\ pc[p] = "he_mark_save"
    /\ LET l == loc[p]
           res == AppendSaveResult(events, PendingRecord(p), l.nextSeq)
           l2 == [l EXCEPT !.changed = l.changed \/ res.created,
                           !.obs = [Appended(l.obs, "marker", IntentIndex(l), res)
                                       EXCEPT !.markers = @ \cup {Head(l.intents).key}]]
       IN /\ events' = res.events
          /\ IF res.err # ""
             THEN Return(p, l2, NoState, "system/store_error", res.events)
             ELSE Goto(p, Dispatch(Cfg(p), [l2 EXCEPT !.intents = Tail(l.intents)]),
                       res.events)
    /\ UNCHANGED <<snapshots, conf, reg, calls, pair>>

\* The AppendEvent in progress fails before its insert for a reason other than
\* a constraint (s.client.Tx or the max-seq query returns an error: connection
\* lost, context cancelled).  The store is unchanged; the Runner sees err # nil.
AppendFault(p) ==
    /\ pc[p] \in {"he_in_save", "he_claim_save", "he_ev_save", "he_mark_save"}
    /\ IF pc[p] = "he_claim_save"
       THEN /\ pc' = [pc EXCEPT ![p] = "he_claim_get"]
            /\ loc' = [loc EXCEPT ![p].obs.appendFailed = TRUE,
                                   ![p].obs.faulted = TRUE]
            /\ UNCHANGED <<ret, hist>>
       ELSE Return(p, [loc[p] EXCEPT !.obs.appendFailed = TRUE,
                                     !.obs.faulted = TRUE], NoState,
                   "system/store_error", events)
    /\ UNCHANGED <<events, snapshots, conf, reg, calls, pair>>

\* seq > 0 && seq%int64(r.snapshotInterval) == 0 (169)
SnapshotDue_Always(cfg, seq) == seq > 0
SnapshotDue(cfg, seq) == seq > 0 /\ seq % cfg.interval = 0

\* Snapshot policy: LastSeq(run) and the interval test (164-169).
HandleLastSeq(p) ==
    /\ pc[p] = "he_lastseq"
    /\ LET l == [loc[p] EXCEPT !.obs.polled = LastSeq(events, loc[p].run)]
           seq == LastSeq(events, l.run)
       IN IF SnapshotDue(Cfg(p), seq)
          THEN /\ pc' = [pc EXCEPT ![p] = "he_savesnap"]
               /\ loc' = [loc EXCEPT ![p] = [l EXCEPT !.nextSeq = seq]]
               /\ UNCHANGED <<ret, hist>>
          ELSE Return(p, l, l.cur, "", events)
    /\ UNCHANGED <<events, snapshots, conf, reg, calls, pair>>

\* Runner.saveSnapshot: Encode and Store.SaveSnapshot (170-173, 271-287).
HandleSaveSnapshot(p) ==
    /\ pc[p] = "he_savesnap"
    /\ LET l == loc[p]
           sn == [snapshot_id |-> <<"snap">> \o l.run \o <<l.nextSeq>>,
                  run_id |-> l.run, upto_seq |-> l.nextSeq, state |-> Encode(l.cur)]
       IN IF SnapshotConflict(snapshots, sn)
          THEN /\ snapshots' = snapshots
               /\ Return(p, [l EXCEPT !.obs.conflict = TRUE], NoState,
                         "system/snapshot_error", events)
          ELSE /\ snapshots' = snapshots \cup {sn}
               /\ Return(p, [l EXCEPT !.obs.snapped = TRUE], l.cur, "", events)
    /\ UNCHANGED <<events, conf, reg, calls, pair>>

\* Runner.saveSnapshot fails before a row is written: Encode returns an error,
\* or SaveSnapshot fails for a reason other than a constraint (170-172).
SnapshotFault(p) ==
    /\ pc[p] = "he_savesnap"
    /\ Return(p, loc[p], NoState, "system/snapshot_error", events)
    /\ UNCHANGED <<events, snapshots, conf, reg, calls, pair>>

\* The process running the cycle dies (or its context is cancelled) between
\* two calls: the cycle is abandoned where it is.
\* ClaimedNoMarker(p): the cycle is past the claim append of a keyed intent and
\* has not written that intent's completion marker.
ClaimedNoMarker(p) ==
    /\ pc[p] \in {"he_handle", "he_ev_begin", "he_ev_save", "he_mark_begin", "he_mark_save"}
    /\ Head(loc[p].intents).key # EmptyStr

Crash(p) ==
    /\ pc[p] \notin {"idle", "append_save"}
    /\ pc' = [pc EXCEPT ![p] = "idle"]
    /\ loc' = [loc EXCEPT ![p] = NoLoc]
    /\ hist' = [hist EXCEPT !.last = NoLast,
                            !.orphans = IF ClaimedNoMarker(p)
                                        THEN @ \cup {<<loc[p].run, Head(loc[p].intents).key>>}
                                        ELSE @]
    /\ UNCHANGED <<events, snapshots, ret, conf, reg, calls, pair>>

HandleStep(p) ==
    \/ HandleList(p)
    \/ HandleDupCheck(p)
    \/ HandleAppendBegin(p)
    \/ HandleIncomingSave(p)
    \/ HandleClaimSave(p)
    \/ AppendFault(p)
    \/ HandleClaimGet(p)
    \/ \E t \in TimeTokens : HandleInvoke(p, t)
    \/ HandleEffectSave(p)
    \/ HandleMarkerSave(p)
    \/ HandleLastSeq(p)
    \/ HandleSaveSnapshot(p)
    \/ SnapshotFault(p)

----------------------------------------------------------------------------
(* Inputs and specifications of the Runner *)

IncomingIds == {<<"e0">>, <<"e1">>}

\* Events callers deliver, by the reducer the Runner was built with.
IncomingEvents(a) ==
    IF a = "todo"
    THEN [id : IncomingIds \cup {EmptyStr}, type : {"add_task", "complete_task"},
          payload : {ObjPayload(0)}]
    ELSE IF a = "plan"
    THEN [id : IncomingIds, type : {"inc", "fail", "batch", "mixed", "tooled", "poison"},
          payload : {ObjPayload(1)}]
    ELSE [id : IncomingIds \cup {EmptyStr}, type : {"inc"}, payload : {ObjPayload(1)}]

\* The Runner configurations in use over the one store.
\* Runner "a" snapshots every SnapshotInterval events, Runner "b" was built
\* without a codec.
RunnerSets(codecs) ==
    { [p \in Procs |-> IF p = "a" THEN WithSnapshot(c) ELSE WithSnapshot("none")] :
        c \in codecs }

\* An empty store and Runners built with one of the reducer/handler pairs in
\* apps, Runner "a" with one of the codecs.
InitWith(apps, codecs) ==
    /\ events = {}
    /\ snapshots = {}
    /\ pc = [p \in Procs |-> "idle"]
    /\ loc = [p \in Procs |-> NoLoc]
    /\ ret = NoRet
    /\ conf \in [app : apps, runner : RunnerSets(codecs)]
    /\ calls = <<>>
    /\ hist = NoHist
    /\ pair = NoPair
    /\ reg = NoReg

Init == InitWith(Apps, {"json", "nodecode"})

\* The Runners of concurrent cycles: reducers that emit keyed intents.
InitConc == InitWith({"idem", "todo"}, {"json"})

\* Cycles are serialized: a cycle begins only when no other is running.
Next ==
    \/ \E p \in Procs, run \in Runs \cup {EmptyStr}, ev \in IncomingEvents(conf.app) :
            AllIdle /\ hist.cycles < MaxCycles /\ HandleBegin(p, run, ev)
                    /\ UNCHANGED pair
    \/ \E p \in Procs : HandleStep(p)

Spec == Init /\ [][Next]_vars

\* The control plane's POST /snapshots: SaveSnapshot of a row with a fresh
\* uuid, the caller's upto_seq and the caller's state, which may be absent.
MaxPosts == 1
PostedBodies(run) == {EmptyBody, [run |-> run, n |-> 7]}
Posted == {sn \in snapshots : sn.snapshot_id[1] = "uuid"}
PostSnapshot(run, upto, body) ==
    /\ AllIdle
    /\ Cardinality(Posted) < MaxPosts
    /\ LET sn == [snapshot_id |-> <<"uuid", Cardinality(Posted)>>, run_id |-> run,
                  upto_seq |-> upto, state |-> body]
       IN /\ ~SnapshotConflict(snapshots, sn)
          /\ snapshots' = snapshots \cup {sn}
    /\ UNCHANGED <<events, pc, loc, ret, conf, reg, calls, hist, pair>>

\* Serialized cycles on run R1 with snapshots also posted by the control
\* plane; reducer reducerWithIdem.
InitSnap == InitWith({"idem"}, {"json"})
NextSnap ==
    \/ \E p \in Procs, ev \in IncomingEvents(conf.app) :
            AllIdle /\ hist.cycles < MaxCycles /\ HandleBegin(p, R1, ev)
                    /\ UNCHANGED pair
    \/ \E p \in Procs : HandleStep(p)
    \/ \E upto \in 1..2, body \in PostedBodies(R1) : PostSnapshot(R1, upto, body)

SpecSnap == InitSnap /\ [][NextSnap]_vars

\* Events the control plane appends on its own (cmd/orch/main.go): POST
\* /api/runs/pause writes run_paused, POST /api/events writes any type; the
\* ids are fresh uuids.  MaxDirect bounds the number of such calls.
MaxDirect == 2
DirectIds == {<<"uuid", ToString(k)>> : k \in 1..MaxDirect}
DirectDone == Cardinality({e \in events : e.event_id \in DirectIds})
DirectRecords(run) ==
    [event_id : {<<"uuid", ToString(DirectDone + 1)>>}, run_id : {run}, seq : {0},
     type : {"run_paused", "inc"}, payload : {ObjPayload(1)}]

\* No HandleEvent call is in progress.
NoCycle == \A p \in Procs : pc[p] \in {"idle", "append_save"}

\* Cycles of run R1 serialized with each other, while the control plane
\* appends to R1 whenever it likes.
InitMixed == InitWith({"counter", "idem"}, {"json"})
NextMixed ==
    \/ \E p \in Procs, ev \in IncomingEvents(conf.app) :
            /\ NoCycle /\ hist.cycles < MaxCycles /\ ev.id # EmptyStr
            /\ HandleBegin(p, R1, ev)
            /\ UNCHANGED pair
    \/ \E p \in Procs : HandleStep(p)
    \/ \E p \in Procs, e \in DirectRecords(R1) :
            /\ DirectDone < MaxDirect
            /\ \A q \in Procs : pc[q] # "append_save"
            /\ AppendBegin(p, e)
    \/ \E p \in Procs : AppendSave(p)

SpecMixed == InitMixed /\ [][NextMixed]_vars

\* Serialized cycles of a Runner whose reducer and handlers can fail.
InitPlan == InitWith(PlanApps, {"json"})
SpecPlan == InitPlan /\ [][Next]_vars

\* Serialized cycles on one run by Runners that snapshot at one of several
\* intervals; the store is written by HandleEvent only.
MaxPolicyCycles == 3
Intervals == 1..3
PolicyRunners ==
    { [p \in Procs |-> IF p = "a" THEN [codec |-> "json", interval |-> i]
                       ELSE NoSnapshotting] : i \in Intervals }
InitPolicy ==
    /\ events = {}
    /\ snapshots = {}
    /\ pc = [p \in Procs |-> "idle"]
    /\ loc = [p \in Procs |-> NoLoc]
    /\ ret = NoRet
    /\ conf \in [app : {"counter", "idem"}, runner : PolicyRunners]
    /\ calls = <<>>
    /\ hist = NoHist
    /\ pair = NoPair
    /\ reg = NoReg
NextPolicy ==
    \/ \E p \in Procs, ev \in IncomingEvents(conf.app) :
            AllIdle /\ hist.cycles < MaxPolicyCycles /\ HandleBegin(p, R1, ev)
                    /\ UNCHANGED pair
    \/ \E p \in Procs : HandleStep(p)
SpecPolicy == InitPolicy /\ [][NextPolicy]_vars

\* Serialized cycles on one run, any of which may be cut short.
NextCrash ==
    \/ \E p \in Procs, ev \in IncomingEvents(conf.app) :
            AllIdle /\ hist.cycles < MaxCycles /\ HandleBegin(p, R1, ev)
                    /\ UNCHANGED pair
    \/ \E p \in Procs : HandleStep(p)
    \/ \E p \in Procs : Crash(p)

SpecCrash == Init /\ [][NextCrash]_vars

\* Cycles for the same run that are not serialized (two Runners, one store).
NextConc ==
    \/ \E p \in Procs, ev \in IncomingEvents(conf.app) :
            hist.cycles < MaxCycles /\ HandleBegin(p, R1, ev) /\ UNCHANGED pair
    \/ \E p \in Procs : HandleStep(p)

SpecConc == InitConc /\ [][NextConc]_vars

\* Two engine instances over two independently initialised stores, fed the
\* same events (distinct ids) for run R1.  Each instance is one Runner.  The
\* stores share nothing, so the first instance is run to the end of its input
\* before the second, empty, store is brought up.  An instance is fed its next
\* event only after the cycle before it succeeded.  MaxFed bounds the number
\* of events fed.
MaxFed == 2

FeedFirst(p, ev) ==
    /\ pair.store = 1
    /\ AllIdle
    /\ Len(pair.fed) < MaxFed
    /\ pair.fed # <<>> => (p = pair.proc /\ ret.err = "")
    /\ \A i \in DOMAIN pair.fed : pair.fed[i].id # ev.id
    /\ HandleBegin(p, R1, ev)
    /\ pair' = [pair EXCEPT !.fed = Append(@, ev), !.proc = p]

SecondStore ==
    /\ pair.store = 1
    /\ AllIdle
    /\ pair.fed # <<>>
    /\ ret.op = "handle" /\ ret.err = ""
    /\ events' = {}
    /\ snapshots' = {}
    /\ pair' = [store |-> 2, proc |-> "", fed |-> <<>>, first |-> pair.fed,
                firstFinal |-> ret.state]
    /\ UNCHANGED <<pc, loc, ret, conf, reg, calls, hist>>

FeedSecond(p) ==
    /\ pair.store = 2
    /\ AllIdle
    /\ Len(pair.fed) < Len(pair.first)
    /\ pair.fed # <<>> => (p = pair.proc /\ ret.err = "")
    /\ HandleBegin(p, R1, pair.first[Len(pair.fed) + 1])
    /\ pair' = [pair EXCEPT !.fed = Append(@, pair.first[Len(pair.fed) + 1]), !.proc = p]

PairEvents(a) == {ev \in IncomingEvents(a) : ev.id # EmptyStr}

NextPair ==
    \/ \E p \in Procs, ev \in PairEvents(conf.app) : FeedFirst(p, ev)
    \/ SecondStore
    \/ \E p \in Procs : FeedSecond(p)
    \/ \E p \in Procs : HandleStep(p)

SpecPair == Init /\ [][NextPair]_vars

----------------------------------------------------------------------------
(* Compact errors (pkg/errmodel) and the tool safe-invoke path             *)
(* (pkg/agent/registry.go, validation.go).                                  *)
(*                                                                          *)
(* A string whose length matters is [s, len, cut]: what it says, its length *)
(* in bytes, and whether it is the whole text ("no"), a bare prefix         *)
(* ("prefix") or a prefix followed by "..." ("ellipsis").                   *)

Str(s, n) == [s |-> s, len |-> n, cut |-> "no"]
NoStr == [s |-> "", len |-> 0, cut |-> "absent"]

MaxContextLen == 256

\* errmodel.truncate(s, max)
truncate(str, max) ==
    IF max <= 0 \/ str.len <= max THEN str
    ELSE IF max <= 3 THEN [s |-> str.s, len |-> max, cut |-> "prefix"]
    ELSE [s |-> str.s, len |-> max, cut |-> "ellipsis"]

\* errmodel.truncateContext for a context of string values; an absent key
\* stays absent.
truncateContext(ctx) ==
    [k \in DOMAIN ctx |-> IF ctx[k] = NoStr THEN NoStr ELSE truncate(ctx[k], MaxContextLen)]

NoContext == [tool |-> NoStr, permission |-> NoStr, error |-> NoStr]
NoErr == [category |-> "", code |-> "", context |-> NoContext]

\* errmodel.New / Validation / Policy: category, code and truncated context.
CompactError(category, code, ctx) ==
    [category |-> category, code |-> code, context |-> truncateContext(ctx)]

\* An error a tool returns from Invoke, passed on as it is.
ToolError == [category |-> "raw", code |-> "tool_failed", context |-> NoContext]

\* Permission names declared by tools; "long" is a name of 300 bytes.
PermNames == {"cpu", "fs:read", "long"}
PermStr(n) ==
    IF n = "cpu" THEN Str(n, 3) ELSE IF n = "fs:read" THEN Str(n, 7) ELSE Str(n, 300)

\* Tools, as Describe() presents them: testTool "sum", badOutputTool and
\* tools.FileReadTool, each also with other Permissions lists.
NilTool == [name |-> NoStr, perms |-> <<>>, input |-> "", output |-> "",
            effects |-> <<>>]
ToolNames == {Str("sum", 3), Str("bad_output_tool", 15), Str("fs.read", 7)}
PermLists == {<<>>, <<"cpu">>, <<"cpu", "fs:read">>, <<"long", "cpu">>}
Describe(name, perms) ==
    [name |-> name, perms |-> perms,
     input |-> name.s \o ".in", output |-> name.s \o ".out",
     effects |-> <<"process">>]
Tools == {Describe(n, ps) : n \in ToolNames, ps \in PermLists}

\* args maps callers pass; the allowed map[string]bool: per name no entry,
\* an entry false, or an entry true.
ToolArgs == {"a1b2", "axb2", "empty", "path_ok"}
AllowedMaps ==
    [PermNames -> {"absent", "true"}] \cup {[n \in PermNames |-> "false"]}

\* allowed[p.Name]
Granted(allowed, n) == allowed[n] = "true"

\* Whether data conforms to a schema (the instances the schemas of the three
\* tools accept, among the values in play).
Conforms(schema, data) ==
    IF schema = "sum.in" THEN data = "a1b2"
    ELSE IF schema = "sum.out" THEN data \in {"sum3", "sum2", "sum0"}
    ELSE IF schema = "bad_output_tool.in" THEN data = "empty"
    ELSE IF schema = "bad_output_tool.out" THEN FALSE
    ELSE IF schema = "fs.read.in" THEN data = "path_ok"
    ELSE IF schema = "fs.read.out" THEN data = "content"
    ELSE FALSE

\* JSONSchemaValidator(schema, data): nil for an empty schema, else the
\* verdict of sch.Validate; TRUE means an error is returned.
JSONSchemaValidator(schema, data) ==
    IF schema = "" THEN FALSE ELSE ~Conforms(schema, data)

\* Texts of the validator's error (err.Error()); their length is not fixed.
ValidatorMessages == {Str("schema_error", 64), Str("schema_error", 300)}

\* What T.Invoke can return for the args: [out, err].
InvokeOutcomes(t, args) ==
    IF t.name.s = "sum"
    THEN {[out |-> IF args = "a1b2" THEN "sum3" ELSE IF args = "axb2" THEN "sum2"
                   ELSE "sum0", err |-> FALSE]}
    ELSE IF t.name.s = "bad_output_tool"
    THEN {[out |-> "okyes", err |-> FALSE]}
    ELSE IF args = "path_ok"
    THEN {[out |-> "content", err |-> FALSE], [out |-> "nil", err |-> TRUE]}
    ELSE {[out |-> "nil", err |-> TRUE]}

\* The permission loop of SafeInvoke: index of the first declared permission
\* that is not allowed, 0 if there is none.
PermissionCheck_FirstOnly(t, allowed) ==
    IF t.perms # <<>> /\ ~Granted(allowed, t.perms[1]) THEN 1 ELSE 0

PermissionCheck(t, allowed) ==
    IF \E i \in DOMAIN t.perms : ~Granted(allowed, t.perms[i])
    THEN CHOOSE i \in DOMAIN t.perms :
            /\ ~Granted(allowed, t.perms[i])
            /\ \A j \in 1..(i-1) : Granted(allowed, t.perms[j])
    ELSE 0

\* SafeInvoke up to its first call of validate: "bad_tool", "forbidden" or
\* "validate" (go on to input validation).
FirstStep_NoPermissionGate(t, allowed) ==
    IF t = NilTool THEN "bad_tool" ELSE "validate"

FirstStep(t, allowed) ==
    IF t = NilTool THEN "bad_tool"
    ELSE IF PermissionCheck(t, allowed) # 0 THEN "forbidden"
    ELSE "validate"

\* What follows validate(d.InputSchema, args).
AfterInputValidation_Ignored(rejected) == "invoke"

AfterInputValidation(rejected) == IF rejected THEN "invalid_input" ELSE "invoke"

\* The output SafeInvoke returns when validate(d.OutputSchema, out) failed.
RejectedOutput_Raw(out) == out

RejectedOutput(out) == "nil"

\* SafeInvoke entry: nil check, Describe, permission loop (registry.go 61-70).
SafeInvokeBegin(p, t, args, allowed) ==
    /\ pc[p] = "idle"
    /\ LET step == FirstStep(t, allowed)
           l == [op |-> "safeinvoke", tool |-> t, args |-> args, allowed |-> allowed,
                 rejectedIn |-> FALSE, raw |-> "nil", trace |-> <<>>]
       IN IF step = "validate"
          THEN /\ pc' = [pc EXCEPT ![p] = "si_validate_in"]
               /\ loc' = [loc EXCEPT ![p] = l]
               /\ ret' = NoRet
          ELSE /\ pc' = pc
               /\ loc' = loc
               /\ ret' = [op |-> "safeinvoke", tool |-> t, args |-> args,
                          allowed |-> allowed, out |-> "nil",
                          err |-> IF step = "bad_tool"
                                  THEN CompactError("validation", "bad_tool", NoContext)
                                  ELSE CompactError("policy", "forbidden",
                                         [NoContext EXCEPT
                                            !.permission =
                                                PermStr(t.perms[PermissionCheck(t, allowed)]),
                                            !.tool = t.name]),
                          rejectedIn |-> FALSE, raw |-> "nil", trace |-> <<>>,
                          invokeErr |-> FALSE]
    /\ UNCHANGED <<events, snapshots, conf, reg, calls, hist, pair>>

\* validate(d.InputSchema, args) (71-73); msg is the text of its error.
SafeInvokeValidateInput(p, msg) ==
    /\ pc[p] = "si_validate_in"
    /\ LET l == loc[p]
           rejected == JSONSchemaValidator(l.tool.input, l.args)
           l2 == [l EXCEPT !.trace = Append(@, "validate_input"),
                           !.rejectedIn = rejected]
       IN IF AfterInputValidation(rejected) = "invalid_input"
          THEN /\ pc' = [pc EXCEPT ![p] = "idle"]
               /\ loc' = [loc EXCEPT ![p] = NoLoc]
               /\ ret' = [op |-> "safeinvoke", tool |-> l.tool, args |-> l.args,
                          allowed |-> l.allowed, out |-> "nil",
                          err |-> CompactError("validation", "invalid_input",
                                    [NoContext EXCEPT !.tool = l.tool.name,
                                                      !.error = msg]),
                          rejectedIn |-> rejected, raw |-> "nil", trace |-> l2.trace,
                          invokeErr |-> FALSE]
          ELSE /\ pc' = [pc EXCEPT ![p] = "si_invoke"]
               /\ loc' = [loc EXCEPT ![p] = l2]
               /\ ret' = ret
    /\ UNCHANGED <<events, snapshots, conf, reg, calls, hist, pair>>

\* if err != nil { return nil, err } (75-77): the error SafeInvoke returns
\* when t.Invoke returned one.
InvokeFailed(t) == ToolError

\* t.Invoke(ctx, args) (74-77).
SafeInvokeInvoke(p, res) ==
    /\ pc[p] = "si_invoke"
    /\ res \in InvokeOutcomes(loc[p].tool, loc[p].args)
    /\ LET l == loc[p]
           l2 == [l EXCEPT !.trace = Append(@, "invoke"), !.raw = res.out]
       IN IF res.err
          THEN /\ pc' = [pc EXCEPT ![p] = "idle"]
               /\ loc' = [loc EXCEPT ![p] = NoLoc]
               /\ ret' = [op |-> "safeinvoke", tool |-> l.tool, args |-> l.args,
                          allowed |-> l.allowed, out |-> "nil", err |-> InvokeFailed(l.tool),
                          rejectedIn |-> l.rejectedIn, raw |-> "nil", trace |-> l2.trace,
                          invokeErr |-> TRUE]
          ELSE /\ pc' = [pc EXCEPT ![p] = "si_validate_out"]
               /\ loc' = [loc EXCEPT ![p] = l2]
               /\ ret' = ret
    /\ UNCHANGED <<events, snapshots, conf, reg, calls, hist, pair>>

\* validate(d.OutputSchema, out) and the return (78-81).
SafeInvokeValidateOutput(p, msg) ==
    /\ pc[p] = "si_validate_out"
    /\ LET l == loc[p]
           rejected == JSONSchemaValidator(l.tool.output, l.raw)
       IN /\ pc' = [pc EXCEPT ![p] = "idle"]
          /\ loc' = [loc EXCEPT ![p] = NoLoc]
          /\ ret' = [op |-> "safeinvoke", tool |-> l.tool, args |-> l.args,
                     allowed |-> l.allowed,
                     out |-> IF rejected THEN RejectedOutput(l.raw) ELSE l.raw,
                     err |-> IF rejected
                             THEN CompactError("validation", "invalid_output",
                                    [NoContext EXCEPT !.tool = l.tool.name,
                                                      !.error = msg])
                             ELSE NoErr,
                     rejectedIn |-> l.rejectedIn, raw |-> l.raw,
                     trace |-> Append(l.trace, "validate_output"),
                     invokeErr |-> FALSE]
    /\ UNCHANGED <<events, snapshots, conf, reg, calls, hist, pair>>

\* Callers of SafeInvoke, one call at a time.
NextTool ==
    \/ \E t \in Tools \cup {NilTool}, args \in ToolArgs, allowed \in AllowedMaps :
            AllIdle /\ SafeInvokeBegin("a", t, args, allowed)
    \/ \E p \in Procs, msg \in ValidatorMessages : SafeInvokeValidateInput(p, msg)
    \/ \E p \in Procs, res \in [out : {"sum3", "sum2", "sum0", "okyes", "content", "nil"},
                                err : BOOLEAN] : SafeInvokeInvoke(p, res)
    \/ \E p \in Procs, msg \in ValidatorMessages : SafeInvokeValidateOutput(p, msg)

SpecTool == InitStore /\ [][NextTool]_vars

----------------------------------------------------------------------------
(* The tool registry (pkg/agent/registry.go) and the MCP server that exports *)
(* it (pkg/mcpserver).                                                       *)

KnownSideEffects ==
    {"network", "filesystem", "process", "model", "database", "cache", "secret"}

\* Tools handed to RegisterTool: nil, a tool without name, tools whose input
\* or output schema does not compile, a tool with an unknown side-effect
\* category, and well-formed tools, two of them named "sum".
RegisterCandidates ==
    { NilTool,
      Describe(Str("", 0), <<>>),
      [Describe(Str("sum", 3), <<"cpu">>) EXCEPT !.input = "broken"],
      [Describe(Str("fs.read", 7), <<"cpu", "fs:read">>) EXCEPT !.output = "broken"],
      [Describe(Str("fs.read", 7), <<"cpu", "fs:read">>) EXCEPT !.effects = <<"process", "teleport">>],
      Describe(Str("sum", 3), <<"cpu">>),
      Describe(Str("sum", 3), <<>>),
      [Describe(Str("fs.read", 7), <<"cpu", "fs:read">>) EXCEPT !.effects = <<"filesystem">>] }

\* validateSchemaOnly(schema): TRUE when an error is returned; an empty
\* schema is not compiled.
validateSchemaOnly(schema) == schema # "" /\ schema = "broken"

\* The checks of RegisterTool before it takes the lock (19-40): the error,
\* "" for none.
RegisterChecks(t) ==
    IF t = NilTool THEN "tool is nil"
    ELSE IF t.name.len = 0 THEN "tool name is empty"
    ELSE IF validateSchemaOnly(t.input) THEN "invalid input schema"
    ELSE IF validateSchemaOnly(t.output) THEN "invalid output schema"
    ELSE IF \E i \in DOMAIN t.effects : t.effects[i] \notin KnownSideEffects
    THEN "unknown side effect category"
    ELSE ""

\* tools[name], ok
Lookup(tools, name) ==
    IF \E t \in tools : t.name = name
    THEN [tool |-> CHOOSE t \in tools : t.name = name, ok |-> TRUE]
    ELSE [tool |-> NilTool, ok |-> FALSE]

\* The section of RegisterTool under toolsMu.Lock (41-47).
RegistryInsert_Overwrite(tools, t) ==
    [tools |-> {o \in tools : o.name # t.name} \cup {t}, err |-> ""]
RegistryInsert_AfterRejection(tools, t) ==
    IF Lookup(tools, t.name).ok
    THEN [tools |-> tools \cup {t}, err |-> "already registered"]
    ELSE [tools |-> tools \cup {t}, err |-> ""]
RegistryInsert(tools, t) ==
    IF Lookup(tools, t.name).ok
    THEN [tools |-> tools, err |-> "already registered"]
    ELSE [tools |-> tools \cup {t}, err |-> ""]

\* RegisterTool returns err: ret keeps the map before and after the call, the
\* log keeps how many calls had returned when this one started.
RegisterReturn(p, t, err, after) ==
    /\ pc' = [pc EXCEPT ![p] = "idle"]
    /\ loc' = [loc EXCEPT ![p] = NoLoc]
    /\ ret' = [op |-> "register", proc |-> p, tool |-> t, err |-> err,
               before |-> reg.tools, after |-> after]
    /\ reg' = [reg EXCEPT !.tools = after,
                          !.first = IF err = "" /\ ~Lookup(@, t.name).ok
                                    THEN @ \cup {t} ELSE @,
                          !.log = Append(@, [tool |-> t, err |-> err,
                                             started |-> IF pc[p] = "rt_lock"
                                                         THEN loc[p].started
                                                         ELSE Len(reg.log)])]

\* RegisterTool up to toolsMu.Lock (19-40).
RegisterToolBegin(p, t) ==
    /\ pc[p] = "idle"
    /\ IF RegisterChecks(t) # ""
       THEN RegisterReturn(p, t, RegisterChecks(t), reg.tools)
       ELSE /\ pc' = [pc EXCEPT ![p] = "rt_lock"]
            /\ loc' = [loc EXCEPT ![p] = [op |-> "register", tool |-> t,
                                          started |-> Len(reg.log)]]
            /\ UNCHANGED <<ret, reg>>
    /\ UNCHANGED <<events, snapshots, conf, calls, hist, pair>>

\* RegisterTool holding toolsMu (41-47); the lock admits one holder.
RegisterToolLocked(p) ==
    /\ pc[p] = "rt_lock"
    /\ LET ins == RegistryInsert(reg.tools, loc[p].tool)
       IN RegisterReturn(p, loc[p].tool, ins.err, ins.tools)
    /\ UNCHANGED <<events, snapshots, conf, calls, hist, pair>>

\* ResolveTool(name) under toolsMu.RLock (51-56).
ResolveTool(p, name) ==
    /\ pc[p] = "idle"
    /\ ret' = [op |-> "resolve", proc |-> p, name |-> name,
               tool |-> Lookup(reg.tools, name).tool, ok |-> Lookup(reg.tools, name).ok]
    /\ UNCHANGED <<events, snapshots, pc, loc, conf, calls, hist, pair, reg>>

\* Server.RegisterFromRegistry(allowed, validate): RangeTools installs for
\* every registered tool a handler that closes over the tool, allowed and
\* validate (server_sdk.go, part_017 26-44).
RegisterFromRegistry(allowed) ==
    /\ AllIdle
    /\ ~reg.server.up
    /\ reg.tools # {}
    /\ reg' = [reg EXCEPT !.server = [up |-> TRUE, handlers |-> reg.tools,
                                       allowed |-> allowed]]
    /\ UNCHANGED <<events, snapshots, pc, loc, ret, conf, calls, hist, pair>>

\* The allow-set a handler passes to SafeInvoke.
HandlerAllowed_Everything(srv) == [n \in PermNames |-> "true"]
HandlerAllowed(srv) == srv.allowed

\* A tools/call request for name reaches the handler installed for it, which
\* calls SafeInvoke(ctx, t, args, allowed, validate).
ServerCallTool(p, name, args) ==
    /\ reg.server.up
    /\ Lookup(reg.server.handlers, name).ok
    /\ SafeInvokeBegin(p, Lookup(reg.server.handlers, name).tool, args,
                       HandlerAllowed(reg.server))

\* Number of RegisterTool calls.
MaxRegs == 3
RegsStarted == Len(reg.log) + Cardinality({p \in Procs : pc[p] = "rt_lock"})

\* Concurrent RegisterTool and ResolveTool calls.
NextRegistry ==
    \/ \E p \in Procs, t \in RegisterCandidates :
            RegsStarted < MaxRegs /\ RegisterToolBegin(p, t)
    \/ \E p \in Procs : RegisterToolLocked(p)
    \/ \E p \in Procs, name \in ToolNames : ResolveTool(p, name)

SpecRegistry == InitStore /\ [][NextRegistry]_vars

\* A process that registers its tools, exports them and serves tools/call
\* requests, one at a time.
NextServer ==
    \/ \E t \in RegisterCandidates :
            AllIdle /\ RegsStarted < MaxRegs /\ RegisterToolBegin("a", t)
    \/ \E p \in Procs : RegisterToolLocked(p)
    \/ \E allowed \in AllowedMaps : RegisterFromRegistry(allowed)
    \/ \E name \in ToolNames, args \in ToolArgs : AllIdle /\ ServerCallTool("a", name, args)
    \/ \E p \in Procs, msg \in ValidatorMessages : SafeInvokeValidateInput(p, msg)
    \/ \E p \in Procs, res \in [out : {"sum3", "sum2", "sum0", "okyes", "content", "nil"},
                                err : BOOLEAN] : SafeInvokeInvoke(p, res)
    \/ \E p \in Procs, msg \in ValidatorMessages : SafeInvokeValidateOutput(p, msg)

SpecServer == InitStore /\ [][NextServer]_vars

----------------------------------------------------------------------------
(* The MCP client (pkg/mcpclient/mcp_client_sdk.go) *)

\* What session.CallTool hands back: a transport error, or a result with
\* IsError, its StructuredContent (a map, something that is not a map, or
\* nothing) and the far side's message.
FarOutcomes ==
    [transport : BOOLEAN, isError : BOOLEAN, content : {"sum3", "text", "none"},
     message : {Str("permission denied for tool", 26), Str("boom", 300)}]

\* An error made with errors.New or passed on from the SDK: no category, no
\* code, no context.
PlainError(text) == [category |-> "raw", code |-> text, context |-> NoContext]

\* sdkClient.CallTool (181-194); session says whether s.session is set.
CallTool(session, far) ==
    IF ~session THEN [out |-> "nil", err |-> PlainError("no active session")]
    ELSE IF far.transport THEN [out |-> "nil", err |-> PlainError("transport")]
    ELSE IF far.isError THEN [out |-> "nil", err |-> PlainError("tool returned error")]
    ELSE [out |-> IF far.content = "sum3" THEN far.content ELSE "nil", err |-> NoErr]

ClientCallTool(p, name, args, session, far) ==
    /\ pc[p] = "idle"
    /\ ret' = [op |-> "calltool", name |-> name, args |-> args, session |-> session,
               far |-> far, out |-> CallTool(session, far).out,
               err |-> CallTool(session, far).err]
    /\ UNCHANGED <<events, snapshots, pc, loc, conf, calls, hist, pair, reg>>

NextClient ==
    \E p \in Procs, name \in ToolNames, args \in ToolArgs, session \in BOOLEAN,
       far \in FarOutcomes : ClientCallTool(p, name, args, session, far)

SpecClient == InitStore /\ [][NextClient]_vars

----------------------------------------------------------------------------
(* HTTP status of a compact error (pkg/errmodel/errmodel.go) *)

\* Category and Code strings of the errors handed to HTTPStatus: the six
\* categories, one in another letter case, an unknown one and the empty one;
\* the codes the switch names and others.
ErrorCategories ==
    {"validation", "tool", "network", "model", "policy", "system",
     "Validation", "quota", ""}
ErrorCodes ==
    {"not_found", "conflict", "unauthorized", "forbidden", "method_not_allowed",
     "invalid_input", "store_error", "remote_error", "internal", "timeout",
     "NOT_FOUND", ""}
NilError == [category |-> "nil", code |-> "nil"]
ErrorInputs == [category : ErrorCategories, code : ErrorCodes] \cup {NilError}

\* HTTPStatus(e) (87-122)
HTTPStatus_ByCategoryOnly(e) ==
    IF e = NilError THEN 500
    ELSE CASE e.category = "validation" -> 400
           [] e.category = "policy" -> 403
           [] e.category \in {"network", "tool", "model"} -> 502
           [] OTHER -> 500
HTTPStatus(e) ==
    IF e = NilError THEN 500
    ELSE CASE e.category = "validation" ->
                  (CASE e.code = "not_found" -> 404
                     [] e.code = "conflict" -> 409
                     [] OTHER -> 400)
           [] e.category = "policy" ->
                  (CASE e.code = "unauthorized" -> 401
                     [] e.code = "forbidden" -> 403
                     [] e.code = "method_not_allowed" -> 405
                     [] OTHER -> 403)
           [] e.category = "network" -> 502
           [] e.category \in {"tool", "model"} -> 502
           [] OTHER -> 500

\* A caller asks for the status of e.
CallHTTPStatus(e) ==
    /\ ret' = [op |-> "httpstatus", e |-> e, status |-> HTTPStatus(e)]
    /\ UNCHANGED <<events, snapshots, pc, loc, conf, calls, hist, pair, reg>>

NextHTTP == \E e \in ErrorInputs : CallHTTPStatus(e)

SpecHTTP == InitStore /\ [][NextHTTP]_vars

----------------------------------------------------------------------------
(* Compact errors: New, From and the size limits (pkg/errmodel/errmodel.go) *)

MaxMessageLen == 512

\* Lengths of messages and of context values, around the two limits.
TextLens == {0, 3, 256, 257, 512, 513, 2000}

\* A value of a map[string]any context: a string of len bytes, a value
\* json.Marshal turns into a text of len bytes (a number, a []string), or a
\* value json.Marshal rejects (a channel, a func, a NaN float).
ContextValues ==
    [kind : {"string", "marshalable"}, len : TextLens \ {0}]
        \cup {[kind |-> "unmarshalable", len |-> 0]}

\* The contexts handed to New: nil or empty, or one key with a value.
Contexts == {<<>>} \cup {<<v>> : v \in ContextValues}

\* One entry of truncateContext (165-182).
truncateValue(v) ==
    IF v.kind = "string"
    THEN [kind |-> "string", len |-> truncate(Str("v", v.len), MaxContextLen).len]
    ELSE IF v.kind = "marshalable"
    THEN [kind |-> "string",
          len |-> IF v.len > MaxContextLen
                  THEN truncate(Str("v", v.len), MaxContextLen).len ELSE v.len]
    ELSE v

\* Errors handed to From and, as causes, to New: nil, a bare error with a
\* message of len bytes, or a compact error some earlier New returned.
NilErr == [kind |-> "nil"]
BareErrors == {[kind |-> "bare", len |-> n] : n \in {3, 513}}

\* New(category, code, message, ctx) without causes (43-47).
NewPlain(category, code, msgLen, ctx) ==
    [kind |-> "compact", category |-> category, code |-> code,
     message |-> truncate(Str("m", msgLen), MaxMessageLen).len,
     context |-> [i \in DOMAIN ctx |-> truncateValue(ctx[i])],
     causes |-> <<>>]

\* From(err) (58-68)
From(err) ==
    IF err.kind = "nil" THEN NilErr
    ELSE IF err.kind = "compact" THEN err
    ELSE [kind |-> "compact", category |-> "system", code |-> "internal",
          message |-> truncate(Str("m", err.len), MaxMessageLen).len,
          context |-> <<>>, causes |-> <<>>]

\* The causes loop of New (48-53): nil causes are skipped.
RECURSIVE AppendCauses(_)
AppendCauses(causes) ==
    IF causes = <<>> THEN <<>>
    ELSE IF Head(causes).kind = "nil" THEN AppendCauses(Tail(causes))
    ELSE <<From(Head(causes))>> \o AppendCauses(Tail(causes))

\* New(category, code, message, ctx, causes...) (43-55)
New(category, code, msgLen, ctx, causes) ==
    [NewPlain(category, code, msgLen, ctx) EXCEPT !.causes = AppendCauses(causes)]

\* Causes callers pass: nil, bare errors, and compact errors made by New.
Causes ==
    {NilErr} \cup BareErrors
        \cup {NewPlain("tool", "inner", n, ctx) : n \in {3, 2000}, ctx \in Contexts}

CallNew(category, msgLen, ctx, causes) ==
    /\ ret' = [op |-> "new", e |-> New(category, "code", msgLen, ctx, causes)]
    /\ UNCHANGED <<events, snapshots, pc, loc, conf, calls, hist, pair, reg>>

CallFrom(err) ==
    /\ From(err) # NilErr
    /\ ret' = [op |-> "from", e |-> From(err)]
    /\ UNCHANGED <<events, snapshots, pc, loc, conf, calls, hist, pair, reg>>

\* New, Validation, Policy and System are New with a fixed category; System
\* passes its cause when it is not nil (71-84).
NextErr ==
    \/ \E category \in {"validation", "policy", "system"}, msgLen \in TextLens,
          ctx \in Contexts, cause \in Causes :
            CallNew(category, msgLen, ctx,
                    IF category = "system" THEN <<cause>> ELSE <<>>)
    \/ \E err \in BareErrors : CallFrom(err)

SpecErr == InitStore /\ [][NextErr]_vars

----------------------------------------------------------------------------
(* The derived event ids (runner.go 263-269) *)

\* Run ids and idempotency keys: non-empty strings, written as the sequence
\* of their parts between hyphens ("add-two" is <<"add", "two">>), so that
\* fmt.Sprintf("intent-%s-%s", run, key) is the concatenation of sequences.
IdParts == {"a", "claim"}
IdStrings == {<<x>> : x \in IdParts} \cup {<<x, y>> : x, y \in IdParts}

\* Two intents are given their claim and marker ids.
DeriveIds(run1, key1, run2, key2) ==
    /\ ret' = [op |-> "ids", a |-> <<run1, key1>>, b |-> <<run2, key2>>,
               claims |-> <<intentClaimEventID(run1, key1), intentClaimEventID(run2, key2)>>,
               markers |-> <<intentMarkerEventID(run1, key1),
                             intentMarkerEventID(run2, key2)>>]
    /\ UNCHANGED <<events, snapshots, pc, loc, conf, calls, hist, pair, reg>>

NextIds == \E run1, key1, run2, key2 \in IdStrings : DeriveIds(run1, key1, run2, key2)

SpecIds == InitStore /\ [][NextIds]_vars

----------------------------------------------------------------------------
(* Properties of the store *)

Seqs(run) == {r.seq : r \in RunEvents(events, run)}
Contiguous(run) ==
    /\ Seqs(run) = 1..LastSeq(events, run)
    /\ Cardinality(RunEvents(events, run)) = LastSeq(events, run)

AppendReturned == ret.op = "append"

\* The duplicate call handed back the row that is in the table and changed
\* nothing.
ReturnedExisting ==
    /\ ret.err = ""
    /\ ~ret.created
    /\ ret.rec = GetEventByID(events, ret.id).rec
    /\ ~ret.changed

C4_SerialSeqIsPreviousPlusOne ==
    /\ (AppendReturned /\ ret.created) =>
          /\ ret.rec.seq = ret.prevRet + 1
          /\ ret.rec.run_id = ret.run
    /\ \A run \in Runs : Contiguous(run)

\* C4 witness: a second append to a run returned 2 while the other run
\* already had events.
C4_Witness ==
    /\ AppendReturned /\ ret.created /\ ret.rec.seq = 2
    /\ \E other \in Runs : other # ret.run /\ LastSeq(events, other) >= 1

\* C5: under any interleaving of concurrent AppendEvent calls the seqs of a
\* run are exactly 1..LastSeq(run), each used once.
C5_ConcurrentSeqsContiguous ==
    \A run \in Runs : Contiguous(run)

\* C5 witness: two transactions read the same max seq; the one that saved
\* second hit the (run_id, seq) index and failed, and the log has two events.
C5_Witness ==
    /\ AppendReturned /\ ret.err = "constraint"
    /\ LastSeq(events, ret.run) >= 2

----------------------------------------------------------------------------
(* Properties of the Runner *)

HandleReturned == ret.op = "handle"
Keyed(i) == calls[i].key # EmptyStr

\* Two handler invocations for the same run and idempotency key.
InvokedTwice ==
    \E i, j \in DOMAIN calls :
        /\ i # j /\ Keyed(i)
        /\ calls[i].run = calls[j].run /\ calls[i].key = calls[j].key

\* C1: over serialized cycles with distinct incoming event ids, the handler of
\* an intent that carries idempotency key k is invoked at most once per run
\* and key.
C1_HandlerAtMostOncePerKey == ~InvokedTwice

\* C2: a second HandleEvent(R, E), E with a non-empty id, issued right after
\* a successful first HandleEvent(R, E) returns the state the first returned,
\* appends nothing and invokes no handler.
C2_SecondDeliveryIsNoOp ==
    ( /\ HandleReturned /\ ret.given # EmptyStr
      /\ ret.prev.err = "" /\ ~ret.prev.dupPath
      /\ ret.prev.run = ret.run /\ ret.prev.given = ret.given )
    => ( /\ ret.err = ""
         /\ ret.state = ret.prev.state
         /\ ~ret.changed
         /\ ret.ncalls = 0 )

\* C6: whenever the store holds a snapshot for the run, the state a Runner
\* (with or without a codec, Decode succeeding or not) has reconstructed in
\* replayState equals StateFactory(run) folded over all events of the run.
C6_SnapshotReplayEqualsFullReplay ==
    \A p \in Procs :
        (pc[p] = "he_dup" /\ HasSnapshot(snapshots, loc[p].run))
        => loc[p].cur = FullFold(conf.app, events, loc[p].run)

\* C7: two engine instances over independently initialised stores that were
\* fed the same event sequence for the run, every cycle succeeding, returned
\* equal final states.
C7_SameInputSameFinalState ==
    ( /\ pair.store = 2 /\ AllIdle
      /\ pair.fed = pair.first
      /\ HandleReturned /\ ret.err = "" )
    => ret.state = pair.firstFinal

\* C8: when two cycles for the same run overlap and both emit an intent with
\* the same key, every handler invocation was made by the cycle whose claim
\* append inserted the claim row, so at most one of them invokes the handler.
C8_ClaimInsertIsTheOnlyGate ==
    /\ \A i \in DOMAIN calls : Keyed(i) => calls[i].gate
    /\ ~InvokedTwice

\* C9: once a cycle has stopped between the claim append of a keyed intent
\* and its completion marker, no later cycle invokes the handler for that run
\* and key.
C9_NoInvocationAfterOrphanedClaim ==
    \A i \in DOMAIN calls : ~calls[i].orphaned

\* C10: the state a successful (non-duplicate) cycle returns equals the
\* replay of the run's log from StateFactory(run) at the moment of return.
\* Stated for runs without a snapshot, so that replay is the plain fold.
C10_ReturnedStateEqualsReplay ==
    ( /\ HandleReturned /\ ret.err = "" /\ ~ret.dupPath
      /\ ~ret.hadSnapshot )
    => ret.state = ret.replay

----------------------------------------------------------------------------
(* Properties of SafeInvoke *)

SafeInvokeReturned == ret.op = "safeinvoke"
Entered(step) == \E i \in DOMAIN ret.trace : ret.trace[i] = step
MissingPermissions ==
    {i \in DOMAIN ret.tool.perms : ~Granted(ret.allowed, ret.tool.perms[i])}
IsError(category, code) == ret.err.category = category /\ ret.err.code = code
SafeInvokeSteps == <<"validate_input", "invoke", "validate_output">>

\* C11: if a permission the tool declares is not allowed, SafeInvoke returns
\* policy/forbidden whose context names a missing permission (as the error
\* context holds names: cut to MaxContextLen bytes) and Invoke is not called.
C11_MissingPermissionIsForbidden ==
    (SafeInvokeReturned /\ ret.tool # NilTool /\ MissingPermissions # {})
    => ( /\ IsError("policy", "forbidden")
         /\ \E i \in MissingPermissions :
                ret.err.context.permission =
                    truncate(PermStr(ret.tool.perms[i]), MaxContextLen)
         /\ ret.out = "nil"
         /\ ~Entered("invoke") )

\* C11 witness: the first declared permission is allowed, the second is not,
\* and the call was refused naming the second.
C11_Witness ==
    /\ SafeInvokeReturned /\ ret.tool # NilTool
    /\ MissingPermissions = {2}
    /\ IsError("policy", "forbidden")
    /\ ret.err.context.permission.s = ret.tool.perms[2]
    /\ ~Entered("invoke")

\* C12: with every declared permission granted, args the validator rejects
\* against the input schema yield validation/invalid_input and Invoke is not
\* called.
C12_InvalidInputNeverReachesInvoke ==
    ( /\ SafeInvokeReturned /\ ret.tool # NilTool /\ MissingPermissions = {}
      /\ ret.rejectedIn )
    => ( /\ IsError("validation", "invalid_input")
         /\ ret.out = "nil"
         /\ ~Entered("invoke") )

\* C12 witness: tool sum, cpu granted, args {a:"x", b:2} were rejected.
C12_Witness ==
    /\ SafeInvokeReturned /\ ret.tool.name.s = "sum" /\ ret.tool.perms = <<"cpu">>
    /\ ret.args = "axb2" /\ ret.rejectedIn
    /\ IsError("validation", "invalid_input")
    /\ ret.trace = <<"validate_input">>

\* C13: when Invoke succeeded and its map fails the output schema, SafeInvoke
\* returns nil output and validation/invalid_output with the tool name in
\* the context; the invalid map is not returned.
C13_InvalidOutputIsNotReturned ==
    ( /\ SafeInvokeReturned /\ Entered("validate_output")
      /\ JSONSchemaValidator(ret.tool.output, ret.raw) )
    => ( /\ IsError("validation", "invalid_output")
         /\ ret.err.context.tool = truncate(ret.tool.name, MaxContextLen)
         /\ ret.out = "nil" /\ ret.out # ret.raw )

\* C13 witness: bad_output_tool returned {"ok": "yes"} and the caller got
\* invalid_output naming the tool.
C13_Witness ==
    /\ SafeInvokeReturned /\ ret.raw = "okyes"
    /\ IsError("validation", "invalid_output")
    /\ ret.err.context.tool.s = "bad_output_tool"
    /\ ret.out = "nil"

\* C14: SafeInvoke goes through nil-tool check, permission check, input
\* validation, Invoke, output validation in that order and stops at the
\* first failure; a nil tool gives validation/bad_tool before anything is
\* called, and a call that lacks a permission and has invalid args gives
\* policy/forbidden without validate or Invoke being called.
C14_FixedOrderFirstFailureWins ==
    SafeInvokeReturned
    => ( /\ ret.trace = SubSeq(SafeInvokeSteps, 1, Len(ret.trace))
         /\ ret.tool = NilTool
                => (IsError("validation", "bad_tool") /\ ret.trace = <<>>)
         /\ (ret.tool # NilTool /\ MissingPermissions # {})
                => (IsError("policy", "forbidden") /\ ret.trace = <<>>)
         /\ IsError("validation", "invalid_input") => ret.trace = <<"validate_input">>
         /\ ret.err = ToolError => ret.trace = <<"validate_input", "invoke">>
         /\ (IsError("validation", "invalid_output") \/ ret.err = NoErr)
                => ret.trace = SafeInvokeSteps )

\* C14 witness: a permission is missing and the args do not fit the input
\* schema; the call ended forbidden with nothing called.
C14_Witness ==
    /\ SafeInvokeReturned /\ ret.tool # NilTool
    /\ MissingPermissions # {}
    /\ JSONSchemaValidator(ret.tool.input, ret.args)
    /\ IsError("policy", "forbidden")
    /\ ret.trace = <<>>

----------------------------------------------------------------------------
(* Properties of the failure paths of HandleEvent *)

\* C15: when Reduce returns an error for the incoming event, HandleEvent
\* returns that error, and the cycle issued no AppendEvent (nothing for the
\* incoming event, a claim, a handler event or a marker was written), saved
\* no snapshot and invoked no handler; the incoming event is not in the log.
C15_ReducerErrorLeavesStoreUntouched ==
    (HandleReturned /\ ret.obs.rerr)
    => ( /\ ret.err = "reducer_failed"
         /\ ~ret.changed
         /\ ret.obs.seqs = <<>> /\ ~ret.obs.appendFailed
         /\ ret.obs.markers = {}
         /\ ~ret.obs.snapped
         /\ ret.ncalls = 0 /\ ret.obs.handled = <<>>
         /\ AllIdle => ~GetEventByID(events, ret.id).found )

\* C15 witness: a cycle that found events of an earlier cycle in the log
\* returned the reducer's error.
C15_Witness ==
    /\ HandleReturned /\ AllIdle /\ ret.obs.rerr
    /\ ret.err = "reducer_failed"
    /\ events # {}
    /\ ~GetEventByID(events, ret.id).found

\* C16: when the handler of intent i returns an error, HandleEvent returns
\* system/effect_error with the intent's name in the context; the incoming
\* event and what was appended for the intents before i are in the log; no
\* handler was invoked for an intent after i; nothing but the claim was
\* appended for i (no completion marker); no snapshot was saved.
C16_HandlerErrorAbortsTheBatch ==
    (HandleReturned /\ ret.obs.herr # "")
    => LET o == ret.obs
       IN /\ ret.err = "system/effect_error"
          /\ o.ctx = o.herr
          /\ o.seqs # <<>> /\ o.seqs[1].what = "incoming"
          /\ \A k \in DOMAIN o.seqs :
                \E e \in events : e.run_id = ret.run /\ e.seq = o.seqs[k].seq
          /\ AllIdle => GetEventByID(events, ret.id).found
          /\ \A k \in DOMAIN o.handled : o.handled[k] <= o.herrIdx
          /\ \A k \in DOMAIN o.seqs :
                /\ o.seqs[k].idx <= o.herrIdx
                /\ o.seqs[k].idx = o.herrIdx => o.seqs[k].what = "claim"
          /\ ~GetEventByID(events, intentMarkerEventID(ret.run, ToolKey)).found
          /\ ~o.snapped

\* C16 witness: in a batch of three intents the handler of the second (tool)
\* failed after the first was handled, its event appended and its marker
\* written; the third intent was not handled.
C16_Witness ==
    /\ HandleReturned /\ AllIdle
    /\ ret.obs.herr = "tool" /\ ret.obs.herrIdx = 2 /\ ret.obs.total = 3
    /\ ret.obs.handled = <<1, 2>>
    /\ ret.err = "system/effect_error"
    /\ \E k \in DOMAIN ret.obs.seqs :
            ret.obs.seqs[k].what = "effect" /\ ret.obs.seqs[k].idx = 1
    /\ AddTwoKey \in ret.obs.markers
    /\ GetEventByID(events, ret.id).found

\* C17: a cycle in which an AppendEvent call (for the incoming event, a claim,
\* a handler event or a marker) returned an error ends with HandleEvent
\* returning system/store_error.
C17_AppendFailureIsStoreError ==
    (HandleReturned /\ ret.obs.appendFailed) => ret.err = "system/store_error"

\* The place of an AppendEvent call inside the part of a cycle that belongs
\* to one intent: claim, handler events, marker.
Rank(what) ==
    IF what = "incoming" THEN 0
    ELSE IF what = "claim" THEN 1
    ELSE IF what = "effect" THEN 2
    ELSE 3

\* C18: in a successful cycle of serialized cycles, the AppendEvent calls are
\* made in the order incoming event, then per handled intent in emission
\* order its claim, its handler events, its marker, and the seqs they return
\* are consecutive and increasing in that order.
C18_CycleAppendsInOrder ==
    (HandleReturned /\ ret.err = "" /\ ~ret.dupPath /\ ~ret.obs.appendFailed)
    => LET q == ret.obs.seqs
       IN /\ q # <<>> /\ q[1].what = "incoming"
          /\ \A k \in 1..(Len(q) - 1) :
                /\ q[k+1].seq = q[k].seq + 1
                /\ q[k].idx <= q[k+1].idx
                /\ q[k].idx = q[k+1].idx => Rank(q[k].what) <= Rank(q[k+1].what)
                /\ Rank(q[k+1].what) > 0

ClaimOrMarker(e) == e.type \in {"intent_claimed", "intent_processed"}

\* C19: in every state of the store the log holds, for a run and an
\* idempotency key, at most one intent_processed row with id intent-<R>-<k>
\* and at most one intent_claimed row with id intent-claim-<R>-<k>, however
\* many cycles emitted an intent with that key.
C19_OneClaimOneMarkerPerKey ==
    \A e1, e2 \in events :
        ( /\ ClaimOrMarker(e1) /\ e1.type = e2.type
          /\ e1.run_id = e2.run_id /\ e1.event_id = e2.event_id )
        => e1 = e2

\* C19 witness: two cycles handled an intent with the same key for the same
\* run and the log holds its claim and its marker.
C19_Witness ==
    /\ InvokedTwice
    /\ \E e \in events :
            e.type = "intent_claimed" /\ e.event_id = intentClaimEventID(R1, AddTwoKey)
    /\ \E e \in events :
            e.type = "intent_processed" /\ e.event_id = intentMarkerEventID(R1, AddTwoKey)

\* C20: an AppendEvent call with a valid record whose event_id was not in the
\* store when the call began returns no error and a row of its own, carrying
\* the run's next seq, whatever other appends to the run were in flight.
C20_ConcurrentAppendsAllSucceed ==
    (AppendReturned /\ ~ret.dup /\ ret.okPayload /\ ret.id # EmptyStr)
    => ( /\ ret.err = ""
         /\ ret.created => (ret.rec.event_id = ret.id /\ ret.rec.seq = ret.prevRet + 1) )

----------------------------------------------------------------------------
(* Properties of snapshotting *)

SnapshotEnabled(p) == Cfg(p).codec # "none" /\ Cfg(p).interval > 0

\* The snapshot row saveSnapshot writes for the state a cycle returned.
SnapshotOf(run, n, st) ==
    [snapshot_id |-> <<"snap">> \o run \o <<n>>, run_id |-> run, upto_seq |-> n,
     state |-> Encode(st)]

\* C21: a non-duplicate cycle of a Runner with snapshotting enabled that
\* returned a state read N = LastSeq(run) at its end and saved the snapshot
\* snap-<run>-<N> with upto_seq N and the encoding of the returned state if
\* and only if N mod interval = 0; a cycle whose Encode or SaveSnapshot
\* failed returned system/snapshot_error and saved nothing.
C21_SnapshotEveryInterval ==
    (HandleReturned /\ ret.run # EmptyStr /\ SnapshotEnabled(ret.proc) /\ ~ret.dupPath)
    => LET o == ret.obs
       IN /\ ret.err = "" =>
                /\ o.polled > 0
                /\ o.snapped <=> (o.polled % Cfg(ret.proc).interval = 0)
                /\ o.snapped => SnapshotOf(ret.run, o.polled, ret.state) \in snapshots
          /\ ret.err = "system/snapshot_error" =>
                (~o.snapped /\ o.polled % Cfg(ret.proc).interval = 0)
          /\ o.snapped => ret.err = ""

\* C21 witness: a cycle ended at LastSeq 2 with interval 2 and saved
\* snap-r1-2 holding the state it returned, after an earlier cycle ended at
\* an odd LastSeq without saving.
C21_Witness ==
    /\ HandleReturned /\ SnapshotEnabled(ret.proc) /\ ~ret.dupPath /\ ret.err = ""
    /\ ret.obs.snapped /\ ret.obs.polled % SnapshotInterval = 0
    /\ SnapshotOf(ret.run, ret.obs.polled, ret.state) \in snapshots
    /\ ret.state.n > 0

\* C22: a cycle of a Runner without SnapshotCodec that found a snapshot for
\* the run, whatever its body, started replay from StateFactory(run) and
\* folded exactly the events with seq above the snapshot's upto_seq.
C22_NoCodecUsesUptoSeqOnly ==
    ( /\ HandleReturned /\ ret.run # EmptyStr /\ Cfg(ret.proc).codec = "none"
      /\ ret.obs.snap # NoSnap )
    => ( /\ ret.obs.base = StateFactory(ret.run)
         /\ \A i \in DOMAIN ret.obs.folded :
                ret.obs.folded[i] = ret.obs.snap.upto_seq + i )

----------------------------------------------------------------------------
(* Properties of the registry, the MCP server and the MCP client *)

\* C23: every call a handler installed by RegisterFromRegistry makes goes
\* through SafeInvoke with the tool it was installed for and the server's
\* allow-set; when the tool declares a permission outside the allow-set or
\* the arguments violate the input schema, Invoke is not entered and the
\* handler returns an error and no output.
C23_ServerCallsOnlyThroughSafeInvoke ==
    (SafeInvokeReturned /\ reg.server.up)
    => ( /\ ret.tool \in reg.server.handlers
         /\ ret.allowed = reg.server.allowed
         /\ (MissingPermissions # {} \/ JSONSchemaValidator(ret.tool.input, ret.args))
                => ( /\ ~Entered("invoke")
                     /\ ret.out = "nil"
                     /\ ret.err # NoErr ) )

\* C23 witness: a server whose allow-set lacks cpu was asked to call sum
\* with valid arguments and answered policy/forbidden without calling it.
C23_Witness ==
    /\ SafeInvokeReturned /\ reg.server.up
    /\ ret.tool.name.s = "sum" /\ ret.tool.perms = <<"cpu">>
    /\ ret.args = "a1b2"
    /\ ~Granted(reg.server.allowed, "cpu")
    /\ IsError("policy", "forbidden")
    /\ ret.trace = <<>>

\* C24: CallTool over a live session returns, for a result with IsError, nil
\* and the compact error tool/remote_error whose context carries the remote
\* message, and for a successful result its structured-content map and a
\* nil error.
C24_RemoteFailureIsToolRemoteError ==
    (ret.op = "calltool" /\ ret.session /\ ~ret.far.transport)
    => IF ret.far.isError
       THEN /\ ret.out = "nil"
            /\ ret.err = CompactError("tool", "remote_error",
                                      [NoContext EXCEPT !.error = ret.far.message])
       ELSE /\ ret.err = NoErr
            /\ ret.far.content = "sum3" => ret.out = ret.far.content

\* C25: when Tool.Invoke returns an error, SafeInvoke returns a compact error
\* of category tool whose context carries the tool name, and the output
\* schema is not validated.
C25_InvokeErrorIsToolError ==
    (SafeInvokeReturned /\ ret.invokeErr)
    => ( /\ ret.err.category = "tool"
         /\ ret.err.context.tool = truncate(ret.tool.name, MaxContextLen)
         /\ ~Entered("validate_output")
         /\ ret.out = "nil" )

\* C26: RegisterTool rejects a nil tool, an empty name, a schema that does
\* not compile, an unknown side-effect category and a name that is already
\* registered; a rejected call leaves the registry as it was; every name
\* resolves to the first tool registered under it with success.
C26_RejectedRegistrationChangesNothing ==
    /\ ret.op = "register"
       => ( /\ ( \/ ret.tool = NilTool
                 \/ ret.tool.name.len = 0
                 \/ "broken" \in {ret.tool.input, ret.tool.output}
                 \/ \E i \in DOMAIN ret.tool.effects :
                        ret.tool.effects[i] \notin KnownSideEffects
                 \/ Lookup(ret.before, ret.tool.name).ok ) => ret.err # ""
            /\ ret.err # "" => ret.after = ret.before
            /\ reg.tools = ret.after )
    /\ \A name \in ToolNames : Lookup(reg.tools, name) = Lookup(reg.first, name)
    /\ ret.op = "resolve" /\ ret.ok => ret.tool = Lookup(reg.first, ret.name).tool
    /\ \A t \in reg.tools : Cardinality({o \in reg.tools : o.name = t.name}) = 1

\* Three calls: an unknown side-effect category is rejected, "sum" is
\* registered, a different tool named "sum" is rejected.
C26_Witness ==
    /\ Len(reg.log) = 3
    /\ reg.log[1].err = "unknown side effect category"
    /\ reg.log[2].err = ""
    /\ ret.op = "register" /\ ret.err = "already registered"
    /\ ret.tool.name = reg.log[2].tool.name /\ ret.tool # reg.log[2].tool
    /\ reg.tools = {reg.log[2].tool}

\* Calls of RegisterTool for name that passed the checks made before the lock
\* and have returned.
Contenders(name) ==
    {i \in DOMAIN reg.log : /\ reg.log[i].tool # NilTool
                            /\ reg.log[i].tool.name = name
                            /\ reg.log[i].err \in {"", "already registered"}}

\* C27: of the concurrent RegisterTool calls for one name exactly one
\* succeeds and the others return "already registered"; ResolveTool returns
\* not-found or the tool of the call that succeeded.
C27_OneWinnerPerName ==
    /\ \A name \in ToolNames :
           Contenders(name) # {}
           => Cardinality({i \in Contenders(name) : reg.log[i].err = ""}) = 1
    /\ ret.op = "resolve"
       => IF ret.ok
          THEN \E i \in Contenders(ret.name) :
                    reg.log[i].err = "" /\ reg.log[i].tool = ret.tool
          ELSE ret.tool = NilTool

\* Two calls for one name overlapped (the second started before the first
\* returned), one lost, and a later ResolveTool returned the winner.
C27_Witness ==
    /\ \E i, j \in DOMAIN reg.log :
           /\ i < j /\ reg.log[j].started < i
           /\ reg.log[i].tool # reg.log[j].tool
           /\ {i, j} \subseteq Contenders(reg.log[i].tool.name)
           /\ reg.log[i].err = "" /\ reg.log[j].err = "already registered"
    /\ ret.op = "resolve" /\ ret.ok

----------------------------------------------------------------------------
(* Properties of the counter and the keyed counter *)

\* C28: with the counter reducer (its intent has no key) every cycle of a
\* run of successful cycles over events with distinct ids invokes the handler
\* once and returns a count of 3 per event delivered so far: 3 after the
\* first, 6 after the second.
C28_CounterReturnsThreePerInc ==
    ( /\ HandleReturned /\ AllIdle /\ ret.err = ""
      /\ conf.app = "counter" /\ pair.fed # <<>> )
    => ( /\ ~ret.dupPath
         /\ ret.ncalls = 1
         /\ ret.state.n = 3 * Len(pair.fed) )

\* C29: with the keyed counter (inc adds n and emits emit_added{n:2} under
\* the key add-two) two successful cycles over inc{n:1} events with distinct
\* ids on a fresh run leave the count at 3, in the state the second cycle
\* returns or in the replay of the log.
C29_KeyedCounterStaysAtThree ==
    ( /\ HandleReturned /\ AllIdle /\ ret.err = ""
      /\ conf.app = "idem" /\ pair.store = 1 /\ Len(pair.fed) = 2 )
    => (ret.state.n = 3 \/ ret.replay.n = 3)

----------------------------------------------------------------------------
(* Properties of HTTPStatus *)

\* C30: HTTPStatus gives 400 for validation (404 for code not_found, 409 for
\* conflict), 403 for policy (401 for unauthorized, 405 for
\* method_not_allowed), 502 for network, tool and model, and 500 for system,
\* for any other category and for a nil error.
C30_StatusByCategoryAndCode ==
    ret.op = "httpstatus"
    => LET e == ret.e
       IN ret.status =
            IF e = NilError THEN 500
            ELSE IF e.category = "validation"
            THEN (IF e.code = "not_found" THEN 404
                  ELSE IF e.code = "conflict" THEN 409 ELSE 400)
            ELSE IF e.category = "policy"
            THEN (IF e.code = "unauthorized" THEN 401
                  ELSE IF e.code = "method_not_allowed" THEN 405 ELSE 403)
            ELSE IF e.category \in {"network", "tool", "model"} THEN 502
            ELSE 500

\* A policy error with code method_not_allowed was mapped to 405.
C30_Witness ==
    /\ ret.op = "httpstatus"
    /\ ret.e = [category |-> "policy", code |-> "method_not_allowed"]
    /\ ret.status = 405

----------------------------------------------------------------------------
(* Properties of compact errors *)

\* C31: every compact error New (Validation, Policy, System) or From of a
\* bare error returns has a message of at most 512 bytes and only context
\* values that are strings of at most 256 bytes, and so has every error in
\* its causes.
C31_ErrorsAreBounded ==
    ret.op \in {"new", "from"}
    => \A e \in {ret.e} \cup {ret.e.causes[i] : i \in DOMAIN ret.e.causes} :
          /\ e.message <= 512
          /\ \A i \in DOMAIN e.context :
                 e.context[i].kind = "string" /\ e.context[i].len <= 256

----------------------------------------------------------------------------
(* Properties of the cycle: duplicates, isolation, dispatch *)

\* The intents reducing the logged event id emits that some handler accepts.
HandledIntentsOf(id) ==
    LET red == Reduce(conf.app, StateFactory(GetEventByID(events, id).rec.run_id),
                      recordToAgentEvent(GetEventByID(events, id).rec))
    IN {red.intents[i] : i \in {j \in DOMAIN red.intents :
                                    FindHandler(conf.app, red.intents[j]) # ""}}

\* C32: when HandleEvent returns through the duplicate path (the incoming
\* id is in the log of the run), every handled
\* intent of the event's reduction had its handler run to completion in an
\* earlier cycle (for a keyed intent: for that run and key, with the
\* completion marker in the log).
C32_DuplicateMeansEffectsProcessed ==
    ( /\ HandleReturned /\ AllIdle /\ ret.dupPath /\ ret.err = ""
      /\ GetEventByID(events, ret.id).rec.run_id = ret.run )
    => \A it \in HandledIntentsOf(ret.id) :
          IF it.key # EmptyStr
          THEN /\ \E i \in DOMAIN calls :
                      /\ calls[i].run = ret.run /\ calls[i].key = it.key
                      /\ calls[i].err = ""
               /\ EventIDTaken(events, intentMarkerEventID(ret.run, it.key))
          ELSE \E i \in DOMAIN calls :
                   /\ calls[i].run = ret.run /\ calls[i].event = ret.id
                   /\ calls[i].name = it.name /\ calls[i].err = ""

\* C33: what other runs hold does not change a cycle of run R: an incoming
\* event whose id is not in R's own log is reduced and appended to R, so
\* after every successful HandleEvent(R, E) the log of R holds E.
C33_RunsAreIsolated ==
    (HandleReturned /\ AllIdle /\ ret.err = "" /\ ret.run # EmptyStr)
    => \E e \in RunEvents(events, ret.run) : e.event_id = ret.id

\* C34: every snapshot the Runner saved with upto_seq N holds the encoding
\* of StateFactory(run) folded over the run's events with seq 1..N, also
\* when other store clients append to the run while a cycle is running.
C34_SnapshotIsFoldUpToSeq ==
    \A sn \in snapshots :
        sn.snapshot_id = <<"snap">> \o sn.run_id \o <<sn.upto_seq>>
        => sn.state = Encode(FoldRecords(conf.app, StateFactory(sn.run_id),
                         SortBySeq({e \in RunEvents(events, sn.run_id) :
                                        e.seq <= sn.upto_seq})))

\* C35: for distinct pairs (run_id, key) the claim ids differ, the marker ids
\* differ, and no claim id equals a marker id.
C35_DerivedIdsAreCollisionFree ==
    (ret.op = "ids" /\ ret.a # ret.b)
    => ( /\ ret.claims[1] # ret.claims[2]
         /\ ret.markers[1] # ret.markers[2]
         /\ \A i, j \in 1..2 : ret.claims[i] # ret.markers[j] )

(* Properties of the intent loop *)

\* C36: only the intents Reduce returned for the incoming event are ever
\* handed to handlers: the intents returned while replaying the log and while
\* folding a handler's events cause no handler call.  In every returned cycle
\* the handler calls are at most one per intent of the incoming event, at
\* increasing positions of that batch, and a cycle that took the duplicate
\* path called no handler.
C36_OnlyIncomingIntentsAreDispatched ==
    HandleReturned
    => LET o == ret.obs
       IN /\ ret.ncalls <= o.total
          /\ Len(o.handled) = ret.ncalls
          /\ \A k \in DOMAIN o.handled : o.handled[k] \in 1..o.total
          /\ \A k \in 1..(Len(o.handled) - 1) : o.handled[k] < o.handled[k+1]
          /\ \A k \in DOMAIN o.seqs : o.seqs[k].idx \in 0..o.total
          /\ ret.dupPath => ret.ncalls = 0

\* C36 witness: a successful cycle whose replay folded an "added" event (for
\* which the reducer returns an intent) and whose single intent was handled,
\* its "added" event appended and folded (returning an intent again).
C36_Witness ==
    /\ HandleReturned /\ AllIdle /\ ret.err = "" /\ ~ret.dupPath
    /\ conf.app = "plan"
    /\ \E e \in RunEvents(events, ret.run) :
            /\ e.type = "added"
            /\ \E i \in DOMAIN ret.obs.folded : ret.obs.folded[i] = e.seq
            /\ Reduce("plan", StateFactory(ret.run), recordToAgentEvent(e)).intents # <<>>
    /\ ret.obs.total = 1 /\ ret.ncalls = 1 /\ ret.obs.handled = <<1>>
    /\ \E k \in DOMAIN ret.obs.seqs : ret.obs.seqs[k].what = "effect"

\* The intents the reducer returned for the incoming event of the last
\* returned cycle, read from the event's row in the log.
IncomingIntents ==
    Reduce(conf.app, StateFactory(ret.run),
           recordToAgentEvent(GetEventByID(events, ret.id).rec)).intents

Accepted(it) == \E i \in 1..Len(Handlers(conf.app)) : CanHandle(Handlers(conf.app)[i], it)

\* C37: an intent no handler accepts is skipped without error and without a
\* store write (no claim, no marker, no other event for it, also when it
\* carries an idempotency key), and the other intents of the batch are
\* dispatched in emission order, each to the first handler of the list that
\* accepts it.
C37_UnhandledIntentIsSkipped ==
    /\ \A k \in DOMAIN calls :
          /\ calls[k].name # "notify"
          /\ \E i \in 1..Len(Handlers(conf.app)) :
                /\ Handlers(conf.app)[i] = calls[k].handler
                /\ CanHandle(Handlers(conf.app)[i], calls[k])
                /\ \A j \in 1..(i-1) : ~CanHandle(Handlers(conf.app)[j], calls[k])
    /\ \A e \in events :
          /\ e.event_id # intentClaimEventID(e.run_id, NotifyKey)
          /\ e.event_id # intentMarkerEventID(e.run_id, NotifyKey)
    /\ (HandleReturned /\ AllIdle /\ ~ret.dupPath /\ ~ret.obs.rerr
          /\ ~ret.obs.replayFailed
          /\ GetEventByID(events, ret.id).found
          /\ GetEventByID(events, ret.id).rec.run_id = ret.run)
       => LET o == ret.obs
              its == IncomingIntents
          IN /\ o.total = Len(its)
             /\ \A i \in 1..Len(its) :
                   ~Accepted(its[i])
                   => /\ \A k \in DOMAIN o.handled : o.handled[k] # i
                      /\ \A k \in DOMAIN o.seqs : o.seqs[k].idx # i
             /\ \A k \in 1..(Len(o.handled) - 1) : o.handled[k] < o.handled[k+1]
             /\ ret.err = ""
                => \A i \in 1..Len(its) :
                      (Accepted(its[i]) /\ its[i].key = EmptyStr)
                      => \E k \in DOMAIN o.handled : o.handled[k] = i

\* C37 witness: a successful cycle whose batch began with a keyed intent no
\* handler accepts; the second and third intents were handled in that order
\* and only the incoming event, their events, and the claim and marker of the
\* third were appended.
C37_Witness ==
    /\ HandleReturned /\ AllIdle /\ ret.err = "" /\ ~ret.dupPath
    /\ GetEventByID(events, ret.id).found
    /\ GetEventByID(events, ret.id).rec.type = "mixed"
    /\ IncomingIntents[1].key = NotifyKey /\ ~Accepted(IncomingIntents[1])
    /\ ret.obs.total = 3 /\ ret.obs.handled = <<2, 3>>
    /\ [k \in DOMAIN ret.obs.seqs |-> ret.obs.seqs[k].what]
          = <<"incoming", "effect", "claim", "effect", "marker">>
    /\ [k \in DOMAIN ret.obs.seqs |-> ret.obs.seqs[k].idx] = <<0, 2, 3, 3, 3>>
    /\ Len(calls) >= 2
    /\ calls[Len(calls)].handler = "testHandler"

\* The last returned cycle invoked ToolEffectHandler and the handler returned
\* its tool_result event (SafeInvoke succeeded); the store did not fail for a
\* reason outside the cycle.
ToolSucceeded ==
    /\ HandleReturned /\ AllIdle /\ ret.ncalls > 0
    /\ ~ret.obs.faulted
    /\ calls # <<>>
    /\ calls[Len(calls)].run = ret.run /\ calls[Len(calls)].event = ret.id
    /\ calls[Len(calls)].handler = "ToolEffectHandler"
    /\ calls[Len(calls)].err = ""

\* C38: a cycle that dispatched a tool intent to ToolEffectHandler whose
\* SafeInvoke succeeded returns without error and appended exactly one new
\* tool_result event to the run's log, for every such intent of the run.
C38_ToolResultIsAppended ==
    ToolSucceeded
    => /\ ret.err = ""
       /\ Cardinality({k \in DOMAIN ret.obs.seqs :
                          /\ ret.obs.seqs[k].what = "effect"
                          /\ ret.obs.seqs[k].created
                          /\ \E e \in RunEvents(events, ret.run) :
                                e.seq = ret.obs.seqs[k].seq /\ e.type = "tool_result"}) = 1

\* The log of the run holds an event the reducer returns an error for.
Poisoned(run) ==
    \E e \in RunEvents(events, run) :
        Reduce(conf.app, StateFactory(run), recordToAgentEvent(e)).err # ""

\* What holds of a cycle that returned system/reducer_error, and of one that
\* failed in replay.
C39_Returned ==
    /\ (HandleReturned /\ ret.err = "system/reducer_error")
       => LET q == ret.obs.seqs
          IN /\ q # <<>>
             /\ q[Len(q)].what = "effect" /\ q[Len(q)].created
             /\ \E e \in RunEvents(events, ret.run) :
                   /\ e.seq = q[Len(q)].seq
                   /\ Reduce(conf.app, StateFactory(ret.run), recordToAgentEvent(e)).err # ""
             /\ ~ret.obs.snapped
    /\ (HandleReturned /\ ret.obs.replayFailed)
       => /\ ret.err = "system/store_error"
          /\ ret.obs.seqs = <<>> /\ ~ret.changed /\ ~ret.obs.appendFailed
          /\ ret.ncalls = 0 /\ ~ret.obs.snapped

\* C39: when the reducer returns an error while folding a handler-produced
\* event, the cycle returns system/reducer_error after that event was
\* appended; the event stays in the log, and every later HandleEvent for the
\* run fails in replay and appends nothing.
C39_PoisonedRunStaysStuck ==
    [][ /\ C39_Returned'
        /\ \A r \in Runs : Poisoned(r) => Poisoned(r)'
        /\ \A p \in Procs :
              (pc[p] = "he_list" /\ pc'[p] # "he_list" /\ Poisoned(loc[p].run))
              => /\ pc'[p] = "idle"
                 /\ ret'.proc = p /\ ret'.obs.replayFailed
                 /\ events' = events /\ snapshots' = snapshots ]_vars

(* Properties of the snapshot policy *)

\* C40: with serialized cycles and a store written by HandleEvent only, the
\* Runner never calls SaveSnapshot for a (run_id, upto_seq) that already has
\* a snapshot: no cycle is about to save an existing pair, and no cycle
\* returned after a uniqueness conflict.
C40_NoSnapshotConflict ==
    /\ \A p \in Procs :
          pc[p] = "he_savesnap"
          => ~\E o \in snapshots :
                  o.run_id = loc[p].run /\ o.upto_seq = loc[p].nextSeq
    /\ HandleReturned => ~ret.obs.conflict

\* C40 witness: a cycle saved a snapshot of a run that had a snapshot already,
\* after a duplicate delivery was answered in between; the run has two
\* snapshots or more and no two of them share an upto_seq.
C40_Witness ==
    /\ HandleReturned /\ AllIdle /\ ret.err = "" /\ ret.obs.snapped
    /\ ret.obs.snap # NoSnap
    /\ ret.prev.dupPath /\ ret.prev.run = ret.run
    /\ Cardinality({sn \in snapshots : sn.run_id = ret.run}) >= 2
    /\ \A s1, s2 \in snapshots :
          (s1.run_id = s2.run_id /\ s1.upto_seq = s2.upto_seq) => s1 = s2

====
